---- MODULE Spec2Model ----
(***************************************************************************)
(* Nutrition aggregation and notification scheduling engine.               *)
(*                                                                         *)
(* Time is counted in whole hours since midnight of day 0 (now); a date is *)
(* now \div 24 and the hour of day is now % 24.  Tables are sets of rows   *)
(* (records) with an autoincrement id.                                     *)
(***************************************************************************)
EXTENDS Integers, FiniteSets, Sequences, TLC

VARIABLES
    now,        \* datetime.now(), in hours
    ticks,      \* hours or days the clock has been advanced so far
    notifs,     \* table smart_notifications
    nextId,     \* next autoincrement id of smart_notifications
    sess,       \* per database session: position inside mark_notification_sent
    users,      \* table users
    meals,      \* table meals
    summaries,  \* table daily_summaries
    notifLog,   \* table notification_logs
    workers,    \* per request: position inside create_or_update_daily_summary
    alerts,     \* table health_alerts
    sched,      \* the scheduler service: running flag, registered jobs, loop threads
    lastOp      \* the operation of the last step, its arguments and its result

notifVars == <<notifs, nextId, sess>>

mealVars == <<users, meals, summaries, notifLog, workers, alerts, sched>>

vars == <<now, ticks, notifs, nextId, sess, users, meals, summaries, notifLog, workers,
         alerts, sched, lastOp>>

----------------------------------------------------------------------------
(* Bounds of the model *)

\* clock ticks a behaviour takes at most
MaxTicks == 3
\* smart_notifications ids handed out at most
MaxNotifs == 6
\* rows of the meals table at most
MaxMeals == 4

----------------------------------------------------------------------------
(* Program constants and value spaces *)

\* a NULL DateTime column
NULL == -1

\* timedelta(days=1), in hours
OneDay == 24

UserIds == {1, 2}

Sessions == {1, 2}

\* exceptions the store may raise inside mark_notification_sent
Faults == {"none", "create_commit", "final_commit"}

\* SchedulerService.__init__: not running, no thread; the schedule module has
\* no job registered
StoppedScheduler == [running |-> FALSE, jobs |-> {}, loops |-> 0]

Today == now \div 24

CurrentHour == now % 24

----------------------------------------------------------------------------
(* smart_notifications *)

\* SmartNotification(...) as the constructor and the column defaults fill it
SmartNotification(id, u, ntype, title, at, recurring, pattern) ==
    [id |-> id, user_id |-> u, notification_type |-> ntype, title |-> title,
     scheduled_time |-> at, is_sent |-> FALSE, is_recurring |-> recurring,
     recurrence_pattern |-> pattern, sent_at |-> NULL]

\* rows generate_smart_notifications leaves for tomorrow (day 1):
\* a recurring hydration reminder, a recurring goal check, a one-off health tip
SeedNotifications ==
    { SmartNotification(1, 1, "hydration", "Morning Hydration", OneDay + 9, TRUE, "daily"),
      SmartNotification(2, 2, "goal_check", "Daily Goal Check-in", OneDay + 20, TRUE, "daily"),
      SmartNotification(3, 1, "health_tip", "Daily Health Tip", OneDay + 10, FALSE, "none") }

\* query(SmartNotification).filter(id == notification_id).first(); {} when None
QueryNotification(store, id) == {n \in store : n.id = id}

\* NextOccurrence with the next day counted from the clock instead of from the
\* original's scheduled_time
NextOccurrenceFromNow(orig, nid) ==
    IF orig.recurrence_pattern = "daily"
    THEN { SmartNotification(nid, orig.user_id, orig.notification_type, orig.title,
                             now + OneDay, TRUE, orig.recurrence_pattern) }
    ELSE {}

\* the next occurrence _create_recurring_notification builds; {} when the
\* recurrence type is not 'daily'
NextOccurrence(orig, nid) ==
    IF orig.recurrence_pattern = "daily"
    THEN { SmartNotification(nid, orig.user_id, orig.notification_type, orig.title,
                             orig.scheduled_time + OneDay, TRUE, orig.recurrence_pattern) }
    ELSE {}

\* notification.is_recurring and notification.recurrence_pattern ({} is falsy)
Chains(n) == n.is_recurring /\ n.recurrence_pattern # "none"

\* the UPDATE mark_notification_sent flushes for row r: is_sent and sent_at
MarkedRow(r, t) == [r EXCEPT !.is_sent = TRUE, !.sent_at = t]

\* the store after mark_notification_sent ran on the loaded object n.
\*  create_commit: the commit inside _create_recurring_notification raises,
\*      its handler rolls the session back (the is_sent change included) and
\*      the outer commit then has nothing to write;
\*  final_commit: the commit of mark_notification_sent raises; for a chaining
\*      notification the inner commit has already written everything.
StoreAfterMark(store, n, nid, t, fault) ==
    LET others == {r \in store : r.id # n.id}
        held   == {r \in store : r.id = n.id}
    IN  IF Chains(n)
        THEN IF fault = "create_commit" /\ NextOccurrence(n, nid) # {}
             THEN store
             ELSE IF NextOccurrence(n, nid) = {} /\ fault = "final_commit"
                  THEN store
                  ELSE others \cup {MarkedRow(r, t) : r \in held} \cup NextOccurrence(n, nid)
        ELSE IF fault = "final_commit"
             THEN store
             ELSE others \cup {MarkedRow(r, t) : r \in held}

\* what mark_notification_sent returns for the loaded object n
MarkReturns(n, fault) ==
    IF fault = "final_commit" THEN FALSE ELSE TRUE

\* whether the call inserted a row (the autoincrement id is consumed)
MarkInserts(n, nid, fault) ==
    Chains(n) /\ NextOccurrence(n, nid) # {} /\ fault # "create_commit"

----------------------------------------------------------------------------
(* Operations on smart_notifications, one session at a time *)

IdleSessions == [s \in Sessions |-> [pc |-> "idle", target |-> 0, loaded |-> {}]]

\* SmartNotificationService.mark_notification_sent(notification_id), whole call
MarkNotificationSent(id, fault) ==
    /\ nextId <= MaxNotifs
    /\ LET found == QueryNotification(notifs, id)
       IN  IF found = {}
           THEN /\ UNCHANGED <<notifs, nextId>>
                /\ lastOp' = [op |-> "mark_notification_sent", id |-> id, fault |-> fault,
                              loaded |-> {}, before |-> notifs, ret |-> FALSE]
           ELSE LET n == CHOOSE r \in found : TRUE
                IN  /\ notifs' = StoreAfterMark(notifs, n, nextId, now, fault)
                    /\ nextId' = IF MarkInserts(n, nextId, fault) THEN nextId + 1 ELSE nextId
                    /\ lastOp' = [op |-> "mark_notification_sent", id |-> id, fault |-> fault,
                                  loaded |-> {n}, before |-> notifs,
                                  ret |-> MarkReturns(n, fault)]
    /\ UNCHANGED <<now, ticks, sess, mealVars>>

\* the clock advances by d hours
Tick(d) ==
    /\ ticks < MaxTicks
    /\ now' = now + d
    /\ ticks' = ticks + 1
    /\ lastOp' = [op |-> "tick"]
    /\ UNCHANGED <<notifVars, mealVars>>

\* the hour the notification behaviours start at: 08:00 of day 1, one hour
\* before the first seeded notification is due
NotifStart == OneDay + 8

\* no users, meals, summaries or logs: the notification behaviours do not read them
NoMealState ==
    /\ users = [u \in {} |-> 0]
    /\ meals = {}
    /\ summaries = {}
    /\ notifLog = {}
    /\ workers = [w \in {} |-> 0]
    /\ alerts = {}
    /\ sched = StoppedScheduler

InitNotif ==
    /\ now = NotifStart
    /\ ticks = 0
    /\ notifs = SeedNotifications
    /\ nextId = 4
    /\ sess = IdleSessions
    /\ NoMealState
    /\ lastOp = [op |-> "init"]

NextNotif ==
    \/ \E id \in 1..MaxNotifs, fault \in Faults : MarkNotificationSent(id, fault)
    \/ Tick(1)

SpecNotif == InitNotif /\ [][NextNotif]_vars

----------------------------------------------------------------------------
(* mark_notification_sent from concurrent sessions: the SELECT and the     *)
(* flush at commit are separate round trips to the store                   *)

\* lines 377-379: the session loads the row
MarkQuery(s, id) ==
    /\ sess[s].pc = "idle"
    /\ sess' = [sess EXCEPT ![s] = [pc |-> "queried", target |-> id,
                                    loaded |-> QueryNotification(notifs, id)]]
    /\ lastOp' = [op |-> "mark_query", session |-> s, id |-> id]
    /\ UNCHANGED <<now, ticks, notifs, nextId, mealVars>>

\* lines 381-396: the session changes its object, chains and commits
MarkFinish(s, fault) ==
    /\ sess[s].pc = "queried"
    /\ nextId <= MaxNotifs
    /\ IF sess[s].loaded = {}
       THEN /\ UNCHANGED <<notifs, nextId>>
            /\ sess' = [sess EXCEPT ![s].pc = "done"]
            /\ lastOp' = [op |-> "mark_finish", session |-> s, fault |-> fault, ret |-> FALSE]
       ELSE LET n == CHOOSE r \in sess[s].loaded : TRUE
            IN  /\ notifs' = StoreAfterMark(notifs, n, nextId, now, fault)
                /\ nextId' = IF MarkInserts(n, nextId, fault) THEN nextId + 1 ELSE nextId
                /\ sess' = [sess EXCEPT ![s].pc = "done"]
                /\ lastOp' = [op |-> "mark_finish", session |-> s, fault |-> fault,
                              ret |-> MarkReturns(n, fault)]
    /\ UNCHANGED <<now, ticks, mealVars>>

\* the request ends and get_db closes the session
SessionClose(s) ==
    /\ sess[s].pc = "done"
    /\ sess' = [sess EXCEPT ![s] = [pc |-> "idle", target |-> 0, loaded |-> {}]]
    /\ lastOp' = [op |-> "session_close", session |-> s]
    /\ UNCHANGED <<now, ticks, notifs, nextId, mealVars>>

NextMarkConc ==
    \/ \E s \in Sessions, id \in 1..MaxNotifs : MarkQuery(s, id)
    \/ \E s \in Sessions : MarkFinish(s, "none")
    \/ \E s \in Sessions : SessionClose(s)

SpecMarkConc == InitNotif /\ [][NextMarkConc]_vars

----------------------------------------------------------------------------
(* Handing out pending notifications: get_pending_notifications *)

\* lines 352-353: scheduled_time <= datetime.now() + timedelta(hours=24)
PendingHorizon == 24

\* lines 348-354: the user's unsent rows scheduled up to the horizon
PendingRows(store, u, t) ==
    {n \in store : /\ n.user_id = u
                   /\ ~n.is_sent
                   /\ n.scheduled_time <= t + PendingHorizon}

\* line 354: order_by(scheduled_time); rows of one time in the order of ids
RECURSIVE BySchedule(_)
BySchedule(rows) ==
    IF rows = {} THEN <<>>
    ELSE LET first == CHOOSE a \in rows : \A b \in rows \ {a} :
                          \/ a.scheduled_time < b.scheduled_time
                          \/ (a.scheduled_time = b.scheduled_time /\ a.id < b.id)
         IN  <<first>> \o BySchedule(rows \ {first})

\* SmartNotificationService.get_pending_notifications(user_id)
GetPendingNotifications(u) ==
    /\ lastOp' = [op |-> "get_pending_notifications", user |-> u, at |-> now,
                  ret |-> BySchedule(PendingRows(notifs, u, now))]
    /\ UNCHANGED <<now, ticks, notifVars, mealVars>>

NextPending ==
    \/ \E id \in 1..MaxNotifs, fault \in Faults : MarkNotificationSent(id, fault)
    \/ \E u \in UserIds : GetPendingNotifications(u)
    \/ Tick(1)

SpecPending == InitNotif /\ [][NextPending]_vars

\* C24: get_pending_notifications returns no notification whose
\* scheduled_time is later than now, and no stored notification is marked
\* sent before its scheduled_time.
C24_NothingDispatchedBeforeItsTime ==
    /\ lastOp.op = "get_pending_notifications" =>
          \A i \in DOMAIN lastOp.ret : lastOp.ret[i].scheduled_time <= lastOp.at
    /\ \A n \in notifs : n.is_sent => n.scheduled_time <= n.sent_at

----------------------------------------------------------------------------
(* Claims about recurrence chaining *)

\* the rows of store that are the occurrence of n one day later
Successors(store, n) ==
    {r \in store : /\ r.id # n.id
                   /\ r.user_id = n.user_id
                   /\ r.notification_type = n.notification_type
                   /\ r.title = n.title
                   /\ r.scheduled_time = n.scheduled_time + OneDay}

\* the rows of notifs the last operation inserted
InsertedRows == {r \in notifs : r.id \notin {q.id : q \in lastOp.before}}

\* the last step was a mark_notification_sent call that found its row and
\* met no store exception
MarkedCleanly ==
    /\ lastOp.op = "mark_notification_sent"
    /\ lastOp.fault = "none"
    /\ lastOp.loaded # {}

\* C1: marking a pending daily-recurring notification sent (the store raising
\* no exception) marks the original is_sent and inserts exactly one row: a
\* pending notification of the same user, type, title and recurrence scheduled
\* exactly one day after the original; every other row is left as it was.
C1_RecurringChainsOnce ==
    MarkedCleanly =>
        \A n \in lastOp.loaded :
            (~n.is_sent /\ n.is_recurring /\ n.recurrence_pattern = "daily") =>
                /\ Cardinality(InsertedRows) = 1
                /\ \A r \in InsertedRows :
                      /\ r.is_sent = FALSE
                      /\ r.sent_at = NULL
                      /\ r.user_id = n.user_id
                      /\ r.notification_type = n.notification_type
                      /\ r.title = n.title
                      /\ r.is_recurring = n.is_recurring
                      /\ r.recurrence_pattern = n.recurrence_pattern
                      /\ r.scheduled_time = n.scheduled_time + OneDay
                /\ notifs \ InsertedRows =
                      {r \in lastOp.before : r.id # n.id} \cup {MarkedRow(n, now)}
                /\ Cardinality(notifs) = Cardinality(lastOp.before) + 1

\* C1 witness: a pending daily-recurring notification has just been marked
C1_Witness ==
    /\ MarkedCleanly
    /\ \E n \in lastOp.loaded :
          /\ ~n.is_sent /\ n.is_recurring /\ n.recurrence_pattern = "daily"
          /\ \E r \in notifs : r.id = n.id /\ r.is_sent
          /\ Successors(notifs, n) # {}

\* C2: a repeated mark_notification_sent call on a recurring notification
\* (one that was already sent when the call loaded it) leaves exactly one
\* successor occurrence in the store, as a single call does.
C2_RepeatedMarkKeepsOneSuccessor ==
    MarkedCleanly =>
        \A n \in lastOp.loaded :
            (n.is_sent /\ Chains(n)) => Cardinality(Successors(notifs, n)) = 1

\* C3: once two sessions have both completed mark_notification_sent on the
\* same pending recurring notification, the store holds the original marked
\* sent and exactly one successor.
C3_ConcurrentMarksChainOnce ==
    \A s1, s2 \in Sessions :
        (/\ s1 # s2
         /\ sess[s1].pc = "done" /\ sess[s2].pc = "done"
         /\ sess[s1].target = sess[s2].target
         /\ sess[s1].loaded # {}
         /\ \A n \in sess[s1].loaded \cup sess[s2].loaded : ~n.is_sent /\ Chains(n))
        => \A n \in sess[s1].loaded :
              /\ \E r \in notifs : r.id = n.id /\ r.is_sent
              /\ Cardinality(Successors(notifs, n)) = 1

\* C30: mark_notification_sent returns true only if the notification is then
\* stored with is_sent = true and, for a daily recurring one, its successor is
\* stored; when it returns false (unknown id, or a failed commit) the stored
\* notifications are as they were before the call.
C30_TrueOnlyIfStored ==
    lastOp.op = "mark_notification_sent" =>
        /\ lastOp.ret =>
              \A n \in lastOp.loaded :
                  /\ \E r \in notifs : r.id = n.id /\ r.is_sent
                  /\ (n.is_recurring /\ n.recurrence_pattern = "daily")
                        => Successors(notifs, n) # {}
        /\ ~lastOp.ret => notifs = lastOp.before

----------------------------------------------------------------------------
(* users, meals and daily_summaries *)

\* dict.get(key, default)
Get(d, k, default) == IF k \in DOMAIN d THEN d[k] ELSE default

\* the JSON object {}
EmptyDict == [k \in {} |-> 0]

\* daily_goals.get("calories", 2000)
DefaultGoalCalories == 2000

\* daily_goals.get("protein", 50)
DefaultGoalProtein == 50

\* analysis_data objects the meal analysis returns: all totals, some totals
\* missing, none at all
AnalysisVals ==
    { [total_calories |-> 400, total_protein |-> 20, total_carbs |-> 50,
       total_fat |-> 10, total_fiber |-> 5],
      [total_calories |-> 600, total_protein |-> 25],
      [total_calories |-> 500],
      [total_calories |-> 1800, total_protein |-> 45],
      [total_calories |-> 1799, total_protein |-> 44],
      EmptyDict }

\* the meals clients log: user 1 any analysis result, user 2 one of them
MealRequests ==
    {<<1, data>> : data \in AnalysisVals} \cup {<<2, [total_calories |-> 600, total_protein |-> 25]>>}

\* the goals clients set: user 1 a goal object with and one without its keys
GoalRequests == { <<1, [calories |-> 1500, protein |-> 60]>>, <<1, EmptyDict>> }

\* the next autoincrement id of a table
NewId(table) ==
    IF table = {} THEN 1
    ELSE 1 + (CHOOSE i \in {r.id : r \in table} : \A r \in table : r.id <= i)

\* Meal(...) as log_meal fills it
Meal(id, u, data, t) ==
    [id |-> id, user_id |-> u, analysis_data |-> data,
     upload_date |-> t \div 24, upload_time |-> t]

\* MealsOn without the user filter
MealsOnAnyUser(mealStore, u, d) == {m \in mealStore : m.upload_date = d}

\* query(Meal).filter(user_id == u, upload_date == d).all()
MealsOn(mealStore, u, d) == {m \in mealStore : m.user_id = u /\ m.upload_date = d}

\* the loop of lines 53-59 for one nutrient: a meal whose analysis_data is
\* empty is skipped, a missing total counts as 0
RECURSIVE SumField(_, _)
SumField(ms, k) ==
    IF ms = {} THEN 0
    ELSE LET m == CHOOSE x \in ms : TRUE
         IN  (IF m.analysis_data # EmptyDict THEN Get(m.analysis_data, k, 0) ELSE 0)
             + SumField(ms \ {m}, k)

\* GoalAchieved with a strict comparison
GoalAchievedStrict(total, goal) == total * 10 > goal * 9

\* total >= goal * 0.9
GoalAchieved(total, goal) == total * 10 >= goal * 9

\* user.daily_goals if user and user.daily_goals else {}
DailyGoals(userTable, u) ==
    IF u \in DOMAIN userTable THEN userTable[u].daily_goals ELSE EmptyDict

\* lines 37-70: the totals, the count and the goal flags of (u, d)
ComputeSummary(mealStore, userTable, u, d) ==
    LET ms   == MealsOn(mealStore, u, d)
        cal  == SumField(ms, "total_calories")
        prot == SumField(ms, "total_protein")
        goal_calories == Get(DailyGoals(userTable, u), "calories", DefaultGoalCalories)
        goal_protein  == Get(DailyGoals(userTable, u), "protein", DefaultGoalProtein)
    IN  [total_calories |-> cal,
         total_protein |-> prot,
         total_carbs |-> SumField(ms, "total_carbs"),
         total_fat |-> SumField(ms, "total_fat"),
         total_fiber |-> SumField(ms, "total_fiber"),
         meals_count |-> Cardinality(ms),
         goal_calories_achieved |-> GoalAchieved(cal, goal_calories),
         goal_protein_achieved |-> GoalAchieved(prot, goal_protein),
         goal_calories |-> goal_calories,
         goal_protein |-> goal_protein]

\* the DailySummary row holding the computed values
SummaryRow(id, u, d, c, t) ==
    [id |-> id, user_id |-> u, date |-> d,
     total_calories |-> c.total_calories, total_protein |-> c.total_protein,
     total_carbs |-> c.total_carbs, total_fat |-> c.total_fat,
     total_fiber |-> c.total_fiber, meals_count |-> c.meals_count,
     goal_calories_achieved |-> c.goal_calories_achieved,
     goal_protein_achieved |-> c.goal_protein_achieved,
     updated_at |-> t]

\* query(DailySummary).filter(user_id == u, date == d).first(); {} when None
FirstSummary(sumStore, u, d) ==
    LET rows == {r \in sumStore : r.user_id = u /\ r.date = d}
    IN  {r \in rows : \A q \in rows : r.id <= q.id}

\* UpsertSummary that never looks for the existing row
InsertSummaryAlways(sumStore, found, u, d, c, t) ==
    sumStore \cup {SummaryRow(NewId(sumStore), u, d, c, t)}

\* lines 80-107: update the row found, else insert one, and commit. The update
\* writes the attributes whose new value differs from the value loaded
UpsertSummary(sumStore, found, u, d, c, t) ==
    IF found # {}
    THEN LET loaded == CHOOSE f \in found : TRUE
             cur == {q \in sumStore : q.id = loaded.id}
             new == SummaryRow(loaded.id, u, d, c, t)
         IN  (sumStore \ cur)
             \cup {[k \in DOMAIN q |-> IF k = "updated_at" THEN t
                                       ELSE IF new[k] # loaded[k] THEN new[k]
                                       ELSE q[k]] : q \in cur}
    ELSE sumStore \cup {SummaryRow(NewId(sumStore), u, d, c, t)}

\* the daily_summaries table after create_or_update_daily_summary(u, d); a
\* failing commit is rolled back
SummariesAfter(sumStore, mealStore, userTable, u, d, t, fault) ==
    IF fault = "commit" THEN sumStore
    ELSE UpsertSummary(sumStore, FirstSummary(sumStore, u, d), u, d,
                       ComputeSummary(mealStore, userTable, u, d), t)

\* what create_or_update_daily_summary returns: the computed dict, {} on error
SummaryReturn(mealStore, userTable, u, d, fault) ==
    IF fault = "commit" THEN EmptyDict ELSE ComputeSummary(mealStore, userTable, u, d)

\* exceptions the store may raise inside create_or_update_daily_summary
SummaryFaults == {"none", "commit"}

\* dates a client may ask for: today and yesterday
ClientDates == {d \in {Today - 1, Today} : d >= 0}

\* a User row with an unverified phone and no preferences or goals stored
DefaultUser ==
    [phone_verified |-> FALSE, has_phone |-> FALSE, has_email |-> FALSE,
     notification_preferences |-> EmptyDict, last_meal_time |-> NULL,
     daily_goals |-> EmptyDict]

\* yesterday's state: user 1 logged one meal at 08:00 of day 0
SeedMeals == { Meal(1, 1, [total_calories |-> 500], 8) }

SeedUsers == [u \in UserIds |-> DefaultUser]

SeedSummaries ==
    { SummaryRow(1, 1, 0, ComputeSummary(SeedMeals, SeedUsers, 1, 0), 8) }

----------------------------------------------------------------------------
(* Operations on meals and summaries, one request at a time *)

\* when the step before was a successful create_or_update_daily_summary(u, d)
\* too: what it returned and the table it left; {} otherwise
PriorCall(u, d) ==
    IF /\ lastOp.op = "create_or_update_daily_summary"
       /\ lastOp.user = u /\ lastOp.date = d /\ lastOp.fault = "none"
    THEN {[ret |-> lastOp.ret, table |-> summaries]}
    ELSE {}

\* DashboardService.create_or_update_daily_summary(user_id, target_date)
CreateOrUpdateDailySummary(u, d, fault) ==
    /\ summaries' = SummariesAfter(summaries, meals, users, u, d, now, fault)
    /\ lastOp' = [op |-> "create_or_update_daily_summary", user |-> u, date |-> d,
                  fault |-> fault, ret |-> SummaryReturn(meals, users, u, d, fault),
                  prior |-> PriorCall(u, d)]
    /\ UNCHANGED <<now, ticks, sched, alerts, notifVars, users, meals, notifLog, workers>>

\* DashboardService.get_daily_dashboard(user_id, target_date): recomputes the
\* summary first; the meal breakdown it adds reads only
GetDailyDashboard(u, d, fault) ==
    /\ summaries' = SummariesAfter(summaries, meals, users, u, d, now, fault)
    /\ lastOp' = [op |-> "get_daily_dashboard", user |-> u, date |-> d,
                  fault |-> fault, ret |-> SummaryReturn(meals, users, u, d, fault)]
    /\ UNCHANGED <<now, ticks, sched, alerts, notifVars, users, meals, notifLog, workers>>

\* exceptions the store may raise inside log_meal: at the meal's own commit,
\* or inside the recomputation of the summary
LogMealFaults == SummaryFaults \cup {"insert"}

\* the meals table after log_meal, were the meal rolled back with the summary
MealsAfterLogRolledBack(mealStore, meal, fault) ==
    IF fault = "none" THEN mealStore \cup {meal} ELSE mealStore

\* lines 41-55 and 67-70: the meal is committed before the summary is
\* recomputed; only a failure of its own commit rolls it back
MealsAfterLog(mealStore, meal, fault) ==
    IF fault = "insert" THEN mealStore ELSE mealStore \cup {meal}

\* user_service.log_meal: insert and commit the meal, then recompute today's
\* summary, swallowing a failure of the recomputation; a failure of the
\* insert is rolled back and raised (ret = {})
LogMeal(u, data, fault) ==
    /\ Cardinality(meals) < MaxMeals
    /\ LET meal == Meal(NewId(meals), u, data, now)
       IN  /\ meals' = MealsAfterLog(meals, meal, fault)
           /\ summaries' = IF fault = "insert" THEN summaries
                           ELSE SummariesAfter(summaries, meals', users, u, Today, now, fault)
           /\ lastOp' = [op |-> "log_meal", user |-> u, date |-> Today, fault |-> fault,
                         ret |-> IF fault = "insert" THEN {} ELSE {meal}]
    /\ UNCHANGED <<now, ticks, sched, alerts, notifVars, users, notifLog, workers>>

\* DashboardService.set_user_goals(user_id, goals)
SetUserGoals(u, goals) ==
    /\ users' = [users EXCEPT ![u].daily_goals =
                    [calories |-> Get(goals, "calories", 2000),
                     protein |-> Get(goals, "protein", 50),
                     carbs |-> Get(goals, "carbs", 250),
                     fat |-> Get(goals, "fat", 65),
                     fiber |-> Get(goals, "fiber", 25)]]
    /\ lastOp' = [op |-> "set_user_goals", user |-> u, ret |-> TRUE]
    /\ UNCHANGED <<now, ticks, sched, alerts, notifVars, meals, summaries, notifLog, workers>>

\* DashboardService.update_meal_calendar_info(meal_id)
UpdateMealCalendarInfo(id) ==
    /\ meals' = {IF m.id = id THEN [m EXCEPT !.upload_date = Today, !.upload_time = now]
                 ELSE m : m \in meals}
    /\ lastOp' = [op |-> "update_meal_calendar_info", id |-> id, at |-> now,
                  ret |-> (\E m \in meals : m.id = id)]
    /\ UNCHANGED <<now, ticks, sched, alerts, notifVars, users, summaries, notifLog, workers>>

IdleWorkers == [w \in Sessions |-> [pc |-> "idle"]]

InitSummary ==
    /\ now = OneDay + 8
    /\ ticks = 0
    /\ notifs = {}
    /\ nextId = 1
    /\ sess = IdleSessions
    /\ users = SeedUsers
    /\ meals = SeedMeals
    /\ summaries = SeedSummaries
    /\ notifLog = {}
    /\ workers = IdleWorkers
    /\ alerts = {}
    /\ sched = StoppedScheduler
    /\ lastOp = [op |-> "init"]

NextSummary ==
    \/ \E req \in MealRequests : LogMeal(req[1], req[2], "none")
    \/ \E fault \in LogMealFaults \ {"none"} : LogMeal(1, [total_calories |-> 500], fault)
    \/ \E u \in UserIds, fault \in SummaryFaults : CreateOrUpdateDailySummary(u, Today, fault)
    \/ GetDailyDashboard(1, Today, "none")
    \/ \E req \in GoalRequests : SetUserGoals(req[1], req[2])

Spec == InitSummary /\ [][NextSummary]_vars
----------------------------------------------------------------------------
(* Claims about the daily summary *)

\* the last step recomputed the summary of (lastOp.user, lastOp.date) and the
\* store raised no exception
Recomputed ==
    /\ lastOp.op \in {"create_or_update_daily_summary", "get_daily_dashboard", "log_meal"}
    /\ lastOp.fault = "none"

\* the stored summary rows of (u, d)
RowsOf(u, d) == {r \in summaries : r.user_id = u /\ r.date = d}

\* a summary row without its update timestamp
SummaryFields(r) == [r EXCEPT !.updated_at = 0]

\* C7: a create_or_update_daily_summary call that directly follows a successful
\* call for the same (user, date), with no meal or goal change in between,
\* returns the same values and leaves every stored summary field as it was,
\* adding no row.
C7_RecomputeIdempotent ==
    (/\ lastOp.op = "create_or_update_daily_summary"
     /\ lastOp.fault = "none")
    => \A p \in lastOp.prior :
          /\ lastOp.ret = p.ret
          /\ {SummaryFields(r) : r \in summaries} = {SummaryFields(r) : r \in p.table}
          /\ Cardinality(summaries) = Cardinality(p.table)

\* C7 witness: the second of two successive recomputations of a day with meals
C7_Witness ==
    /\ lastOp.op = "create_or_update_daily_summary"
    /\ lastOp.fault = "none"
    /\ lastOp.prior # {}
    /\ lastOp.ret.meals_count >= 2
    /\ Cardinality(RowsOf(lastOp.user, lastOp.date)) = 1

\* what meal number i adds to nutrient k of (u, d): its total, 0 when the total
\* is missing or the meal is not one of (u, d)
Contribution(i, u, d, k) ==
    LET ms == {m \in meals : m.id = i /\ m.user_id = u /\ m.upload_date = d}
    IN  IF ms = {} THEN 0
        ELSE LET m == CHOOSE x \in ms : TRUE
             IN  IF k \in DOMAIN m.analysis_data THEN m.analysis_data[k] ELSE 0

\* the sum of nutrient k over the meals of (u, d) numbered 1..i
RECURSIVE TotalUpTo(_, _, _, _)
TotalUpTo(i, u, d, k) ==
    IF i = 0 THEN 0 ELSE TotalUpTo(i - 1, u, d, k) + Contribution(i, u, d, k)

\* C8: after a recomputation of (user, date) the stored summary of that day
\* has every nutrient total equal to the sum of that nutrient over all meals
\* of the user on the date, a missing total counting as 0, and meals_count
\* equal to the number of those meals.
C8_TotalsAreSums ==
    Recomputed =>
        LET u == lastOp.user
            d == lastOp.date
            n == Cardinality({m \in meals : m.user_id = u /\ m.upload_date = d})
        IN  /\ RowsOf(u, d) # {}
            /\ \A r \in RowsOf(u, d) :
                  /\ r.total_calories = TotalUpTo(MaxMeals + 1, u, d, "total_calories")
                  /\ r.total_protein = TotalUpTo(MaxMeals + 1, u, d, "total_protein")
                  /\ r.total_carbs = TotalUpTo(MaxMeals + 1, u, d, "total_carbs")
                  /\ r.total_fat = TotalUpTo(MaxMeals + 1, u, d, "total_fat")
                  /\ r.total_fiber = TotalUpTo(MaxMeals + 1, u, d, "total_fiber")
                  /\ r.meals_count = n

\* C8 witness: meals of 400, 600 and 500 kcal on one day with the goal 2000
\* give the total 1500, meals_count 3 and the calorie goal not achieved
C8_Witness ==
    /\ Recomputed
    /\ users[lastOp.user].daily_goals = EmptyDict
    /\ {Get(m.analysis_data, "total_calories", 0) :
            m \in {x \in meals : x.user_id = lastOp.user /\ x.upload_date = lastOp.date}}
         = {400, 600, 500}
    /\ \E r \in RowsOf(lastOp.user, lastOp.date) :
          r.total_calories = 1500 /\ r.meals_count = 3 /\ ~r.goal_calories_achieved

\* C12: log_meal returns the meal and the Meal row is stored whenever the
\* meal's own insert succeeds, also when the recomputation of the summary
\* fails; no meal stored before is removed.
C12_LogMealSurvivesSummaryFailure ==
    (lastOp.op = "log_meal" /\ lastOp.fault # "insert") =>
        /\ lastOp.ret # {}
        /\ \A m \in lastOp.ret :
              /\ m \in meals
              /\ m.user_id = lastOp.user
              /\ m.upload_date = lastOp.date
        /\ \A i \in 1..MaxMeals :
              (\A m \in lastOp.ret : i < m.id) => \E m \in meals : m.id = i

\* C12 witness: a log_meal whose recomputation failed; the meal is stored and
\* the day's summary does not count it
C12_Witness ==
    /\ lastOp.op = "log_meal"
    /\ lastOp.fault = "commit"
    /\ lastOp.ret \subseteq meals
    /\ lastOp.ret # {}
    /\ \A r \in RowsOf(lastOp.user, lastOp.date) :
          r.meals_count < Cardinality({m \in meals : m.user_id = lastOp.user
                                                      /\ m.upload_date = lastOp.date})

\* the user's goal for key k, the default when the user has none
GoalOf(u, k, default) ==
    IF k \in DOMAIN users[u].daily_goals THEN users[u].daily_goals[k] ELSE default

\* C9: after a recomputation the stored goal_calories_achieved is true exactly
\* when total_calories is at least 90% of the user's calorie goal, and
\* goal_protein_achieved likewise for protein; the goals default to 2000 kcal
\* and 50 g when the user has set none.
C9_GoalFlagsAtNinetyPercent ==
    Recomputed =>
        \A r \in RowsOf(lastOp.user, lastOp.date) :
            /\ r.goal_calories_achieved
                 <=> (10 * r.total_calories >= 9 * GoalOf(lastOp.user, "calories", 2000))
            /\ r.goal_protein_achieved
                 <=> (10 * r.total_protein >= 9 * GoalOf(lastOp.user, "protein", 50))

\* C9 witness: with the default goal a day of exactly 1800 kcal achieves it
C9_Witness ==
    /\ Recomputed
    /\ users[lastOp.user].daily_goals = EmptyDict
    /\ \E r \in RowsOf(lastOp.user, lastOp.date) :
          r.total_calories = 1800 /\ r.goal_calories_achieved

\* with the default goal a day of 1799 kcal does not achieve it
C9_JustBelow ==
    /\ Recomputed
    /\ users[lastOp.user].daily_goals = EmptyDict
    /\ \E r \in RowsOf(lastOp.user, lastOp.date) :
          r.total_calories = 1799 /\ ~r.goal_calories_achieved

----------------------------------------------------------------------------
(* Concurrent requests on meals and summaries: every request has its own  *)
(* session, and each query and each commit is a round trip to the store   *)

\* bound on the rows of daily_summaries in the concurrent runs
MaxSummaryRows == 4

\* bound on the meals in the concurrent runs
MaxConcMeals == 3

\* the meal logged in the concurrent runs
ConcMeal == [total_calories |-> 600, total_protein |-> 25]

\* the requests under way
Busy == {w \in Sessions : workers[w].pc # "idle"}

\* room in the bounded tables for one more request
RoomForRequest == Cardinality(summaries) + Cardinality(Busy) < MaxSummaryRows

\* user_service.log_meal, lines 45-58: the meal is inserted and committed
LogMealInsert(w, u, data) ==
    /\ workers[w].pc = "idle"
    /\ RoomForRequest
    /\ Cardinality(meals) < MaxConcMeals
    /\ meals' = meals \cup {Meal(NewId(meals), u, data, now)}
    /\ workers' = [workers EXCEPT ![w] =
                      [pc |-> "called", op |-> "log_meal", user |-> u, date |-> Today]]
    /\ lastOp' = [op |-> "log_meal_insert", worker |-> w, user |-> u, date |-> Today]
    /\ UNCHANGED <<now, ticks, sched, alerts, notifVars, users, summaries, notifLog>>

\* a request calls create_or_update_daily_summary(u, d), directly or through
\* get_daily_dashboard
SummaryCall(w, op, u, d) ==
    /\ workers[w].pc = "idle"
    /\ RoomForRequest
    /\ workers' = [workers EXCEPT ![w] =
                      [pc |-> "called", op |-> op, user |-> u, date |-> d]]
    /\ lastOp' = [op |-> "summary_call", worker |-> w, user |-> u, date |-> d]
    /\ UNCHANGED <<now, ticks, sched, alerts, notifVars, users, meals, summaries, notifLog>>

\* lines 37-70: the meals and the user are read, the totals and flags computed
SummaryCompute(w) ==
    /\ workers[w].pc = "called"
    /\ workers' = [workers EXCEPT ![w] =
                      [pc |-> "computed", op |-> workers[w].op,
                       user |-> workers[w].user, date |-> workers[w].date,
                       computed |-> ComputeSummary(meals, users, workers[w].user,
                                                   workers[w].date)]]
    /\ lastOp' = [op |-> "summary_compute", worker |-> w,
                  user |-> workers[w].user, date |-> workers[w].date]
    /\ UNCHANGED <<now, ticks, sched, alerts, notifVars, users, meals, summaries, notifLog>>

\* lines 73-78: the existing summary is looked up
SummaryLookup(w) ==
    /\ workers[w].pc = "computed"
    /\ workers' = [workers EXCEPT ![w] =
                      [pc |-> "looked_up", op |-> workers[w].op,
                       user |-> workers[w].user, date |-> workers[w].date,
                       computed |-> workers[w].computed,
                       found |-> FirstSummary(summaries, workers[w].user,
                                              workers[w].date)]]
    /\ lastOp' = [op |-> "summary_lookup", worker |-> w,
                  user |-> workers[w].user, date |-> workers[w].date]
    /\ UNCHANGED <<now, ticks, sched, alerts, notifVars, users, meals, summaries, notifLog>>

\* lines 80-123: the row is updated or inserted and committed, and the
\* request returns
SummaryCommit(w) ==
    /\ workers[w].pc = "looked_up"
    /\ summaries' = UpsertSummary(summaries, workers[w].found, workers[w].user,
                                  workers[w].date, workers[w].computed, now)
    /\ workers' = [workers EXCEPT ![w] = [pc |-> "idle"]]
    /\ lastOp' = [op |-> "summary_commit", worker |-> w, request |-> workers[w].op,
                  user |-> workers[w].user, date |-> workers[w].date,
                  ret |-> workers[w].computed]
    /\ UNCHANGED <<now, ticks, sched, alerts, notifVars, users, meals, notifLog>>

\* the week of get_weekly_dashboard has this many days
WeekDays == 7

\* date.weekday() with day 0 a Monday
Weekday(d) == d % 7

\* lines 169-173: the week asked for, by default the one begun last Monday
WeekStart(start) == IF start = NULL THEN Today - Weekday(Today) ELSE start

\* lines 176-182: the summaries of the week
WeekSummaries(sumStore, u, first) ==
    {r \in sumStore : r.user_id = u /\ r.date >= first /\ r.date <= first + 6}

\* lines 203-216: the entry of one day, from the first summary of the day
DayEntry(rows, d) ==
    LET mine == {r \in rows : r.date = d}
        day == {r \in mine : \A q \in mine : r.id <= q.id}
    IN  IF day = {}
        THEN [date |-> d, calories |-> 0, protein |-> 0, meals_count |-> 0,
              goals_achieved |-> [calories |-> FALSE, protein |-> FALSE]]
        ELSE LET r == CHOOSE x \in day : TRUE
             IN  [date |-> d, calories |-> r.total_calories, protein |-> r.total_protein,
                  meals_count |-> r.meals_count,
                  goals_achieved |-> [calories |-> r.goal_calories_achieved,
                                      protein |-> r.goal_protein_achieved]]

\* lines 218-237: what get_weekly_dashboard returns (the parts about days)
WeeklyDashboard(sumStore, u, first) ==
    LET rows == WeekSummaries(sumStore, u, first)
    IN  [week_start |-> first,
         week_end |-> first + 6,
         goal_achievement |->
             [calories_days |-> Cardinality({r \in rows : r.goal_calories_achieved}),
              protein_days |-> Cardinality({r \in rows : r.goal_protein_achieved}),
              total_days |-> Cardinality(rows)],
         daily_data |-> [i \in 1..WeekDays |-> DayEntry(rows, first + i - 1)]]

\* DashboardService.get_weekly_dashboard(user_id, start_date): one query, no
\* write
GetWeeklyDashboard(u, start) ==
    /\ lastOp' = [op |-> "get_weekly_dashboard", user |-> u,
                  ret |-> WeeklyDashboard(summaries, u, WeekStart(start))]
    /\ UNCHANGED <<now, ticks, notifVars, mealVars>>

NextSummaryConc ==
    \/ \E w \in Sessions, u \in UserIds : LogMealInsert(w, u, ConcMeal)
    \/ \E w \in Sessions, u \in UserIds,
          op \in {"create_or_update_daily_summary", "get_daily_dashboard"} :
             SummaryCall(w, op, u, Today)
    \/ \E w \in Sessions : SummaryCompute(w)
    \/ \E w \in Sessions : SummaryLookup(w)
    \/ \E w \in Sessions : SummaryCommit(w)
    \/ \E u \in UserIds, start \in {NULL, Today} : GetWeeklyDashboard(u, start)

SpecSummaryConc == InitSummary /\ [][NextSummaryConc]_vars

\* C10: in every state there is at most one DailySummary row for each
\* (user_id, date), and exactly one for the (user, date) of a recomputation
\* that has just completed.
C10_OneSummaryPerUserAndDate ==
    /\ \A r, q \in summaries : (r.user_id = q.user_id /\ r.date = q.date) => r = q
    /\ lastOp.op = "summary_commit"
          => Cardinality(RowsOf(lastOp.user, lastOp.date)) = 1

\* C16: get_weekly_dashboard returns exactly 7 daily_data entries, for the 7
\* consecutive dates from the week start; total_days is the number of dates
\* of the week with a stored summary, and every date without one has
\* calories, protein and meals_count 0 and both goal flags false.
C16_WeeklyDashboardComplete ==
    lastOp.op = "get_weekly_dashboard" =>
        LET ret == lastOp.ret
            dated == {d \in ret.week_start..(ret.week_start + 6) :
                         RowsOf(lastOp.user, d) # {}}
        IN  /\ DOMAIN ret.daily_data = 1..7
            /\ \A i \in 1..7 : ret.daily_data[i].date = ret.week_start + i - 1
            /\ ret.goal_achievement.total_days = Cardinality(dated)
            /\ \A i \in 1..7 :
                  ret.daily_data[i].date \notin dated =>
                      /\ ret.daily_data[i].calories = 0
                      /\ ret.daily_data[i].protein = 0
                      /\ ret.daily_data[i].meals_count = 0
                      /\ ~ret.daily_data[i].goals_achieved.calories
                      /\ ~ret.daily_data[i].goals_achieved.protein

\* concurrent meal-logging requests only
NextLogMealConc ==
    \/ \E w \in Sessions, u \in UserIds : LogMealInsert(w, u, ConcMeal)
    \/ \E w \in Sessions : SummaryCompute(w)
    \/ \E w \in Sessions : SummaryLookup(w)
    \/ \E w \in Sessions : SummaryCommit(w)

SpecLogMealConc == InitSummary /\ [][NextLogMealConc]_vars

\* C11: once every concurrent meal-logging request has completed, the stored
\* summary of a (user, date) that has a single summary row has totals and
\* meals_count equal to the sums over all meals committed for that date.
C11_ConcurrentLogsLeaveTrueTotals ==
    Busy = {} =>
        \A r \in summaries :
            Cardinality(RowsOf(r.user_id, r.date)) = 1 =>
                /\ r.total_calories
                     = TotalUpTo(MaxConcMeals + 1, r.user_id, r.date, "total_calories")
                /\ r.total_protein
                     = TotalUpTo(MaxConcMeals + 1, r.user_id, r.date, "total_protein")
                /\ r.meals_count
                     = Cardinality({m \in meals : m.user_id = r.user_id
                                                   /\ m.upload_date = r.date})

----------------------------------------------------------------------------
(* Meal reminders: NotificationService.check_and_send_meal_reminders *)

\* bound on the rows of notification_logs
MaxLog == 3

\* bound on the meals logged in the reminder runs
MaxReminderMeals == 1

\* a reminder is due when the last meal is more than this many hours old
ReminderGapHours == 5

\* a meal_reminder logged less than this many hours ago suppresses a new one
DedupHours == 2

DefaultQuietStart == 22

DefaultQuietEnd == 7

\* what the gateway and the log's commit do with one send: delivered and
\* logged, rejected and logged as failed, or delivered with the log lost
SendOutcomes == {"sent", "failed", "unlogged"}

\* a row of notification_logs
NotificationLog(id, u, ntype, channel, status, t) ==
    [id |-> id, user_id |-> u, notification_type |-> ntype, channel |-> channel,
     status |-> status,
     error_message |-> IF status = "failed" THEN "gateway error" ELSE "",
     created_at |-> t]

\* the users query of the pass: verified phone, and no last meal time or one
\* older than the gap
NeedsReminder(usr, t) ==
    /\ usr.phone_verified
    /\ usr.has_phone
    /\ (usr.last_meal_time = NULL \/ usr.last_meal_time < t - ReminderGapHours)

WhatsappEnabled(usr) ==
    IF "whatsapp_enabled" \in DOMAIN usr.notification_preferences
    THEN usr.notification_preferences["whatsapp_enabled"]
    ELSE TRUE

\* the quiet-hours test without the wraparound
InQuietHoursNoWrap(usr, hour) ==
    /\ Get(usr.notification_preferences, "quiet_hours_start", DefaultQuietStart) <= hour
    /\ hour < Get(usr.notification_preferences, "quiet_hours_end", DefaultQuietEnd)

\* the quiet-hours test of the pass
InQuietHours(usr, hour) ==
    \/ Get(usr.notification_preferences, "quiet_hours_start", DefaultQuietStart) <= hour
    \/ hour < Get(usr.notification_preferences, "quiet_hours_end", DefaultQuietEnd)

\* the recent-reminder query, of any notification type
RecentReminderAnyType(log, u, t) ==
    \E r \in log : r.user_id = u /\ r.created_at > t - DedupHours

\* the recent-reminder query, were a row exactly 2 hours old still recent
RecentReminderInclusive(log, u, t) ==
    \E r \in log :
        /\ r.user_id = u
        /\ r.notification_type = "meal_reminder"
        /\ r.created_at >= t - DedupHours

\* the recent-reminder query of the pass
RecentReminder(log, u, t) ==
    \E r \in log :
        /\ r.user_id = u
        /\ r.notification_type = "meal_reminder"
        /\ r.created_at > t - DedupHours

\* the users the pass attempts a send to
Attempted(userTable, log, t) ==
    {u \in UserIds :
        /\ NeedsReminder(userTable[u], t)
        /\ WhatsappEnabled(userTable[u])
        /\ ~InQuietHours(userTable[u], t % 24)
        /\ ~RecentReminder(log, u, t)}

\* LoggedRows that logs deliveries only
LoggedRowsOnlyOnSuccess(log, u, ntype, channel, outcome, t) ==
    IF outcome # "sent" THEN {}
    ELSE {NotificationLog(NewId(log), u, ntype, channel, outcome, t)}

\* send_whatsapp_message or send_email with a user id: the row it logs, none
\* when the log's commit fails
LoggedRows(log, u, ntype, channel, outcome, t) ==
    IF outcome = "unlogged" THEN {}
    ELSE {NotificationLog(NewId(log), u, ntype, channel, outcome, t)}

\* what send_whatsapp_message or send_email did and returned for one attempt
Attempt(u, channel, outcome) ==
    [user |-> u, channel |-> channel, outcome |-> outcome,
     success |-> (outcome # "failed")]

\* the log after the sends of a pass to the users of us, in the order of
\* their ids
RECURSIVE LogAfterPass(_, _, _, _)
LogAfterPass(log, us, outcome, t) ==
    IF us = {} THEN log
    ELSE LET u == CHOOSE x \in us : \A y \in us : x <= y
         IN  LogAfterPass(log \cup LoggedRows(log, u, "meal_reminder", "whatsapp",
                                              outcome[u], t),
                          us \ {u}, outcome, t)

\* no query of the pass fails
NoFailure == 0

\* the pass stops at user failAt: the user is in the loop, gets as far as the
\* recent-reminder query of lines 305-311, and the query raises
AbortsAt(userTable, t, failAt) ==
    /\ failAt \in UserIds
    /\ NeedsReminder(userTable[failAt], t)
    /\ WhatsappEnabled(userTable[failAt])
    /\ ~InQuietHours(userTable[failAt], t % 24)

\* the users whose turn in the loop of lines 289-328 runs to its end: the loop
\* has no try of its own, so an exception ends it
Reached(userTable, t, failAt) ==
    {u \in UserIds :
        /\ NeedsReminder(userTable[u], t)
        /\ AbortsAt(userTable, t, failAt) => u < failAt}

\* NotificationService.check_and_send_meal_reminders(); failAt is the user at
\* whose recent-reminder query the store raises, NoFailure for none
CheckAndSendMealReminders(outcome, failAt) ==
    LET reached == Reached(users, now, failAt)
        us == Attempted(users, notifLog, now) \cap reached
        checked == {u \in UserIds : NeedsReminder(users[u], now)}
        aborted == AbortsAt(users, now, failAt)
    IN  /\ Cardinality(notifLog) + Cardinality(us) <= MaxLog
        /\ notifLog' = LogAfterPass(notifLog, us, outcome, now)
        /\ lastOp' = [op |-> "check_and_send_meal_reminders", at |-> now,
                      before |-> notifLog, attempted |-> us,
                      attempts |-> {Attempt(u, "whatsapp", outcome[u]) : u \in us},
                      failed_at |-> failAt, reached |-> reached,
                      ret |-> IF aborted THEN [success |-> FALSE]
                              ELSE [success |-> TRUE,
                                    reminders_sent |->
                                        Cardinality({u \in us : outcome[u] # "failed"}),
                                    users_checked |-> Cardinality(checked)]]
        /\ UNCHANGED <<now, ticks, sched, alerts, notifVars, users, meals, summaries, workers>>

\* SchedulerService.send_immediate_reminder(user_id)
SendImmediateReminder(u, outcome) ==
    /\ Cardinality(notifLog) < MaxLog
    /\ IF users[u].phone_verified /\ users[u].has_phone
       THEN /\ notifLog' = notifLog \cup
                              LoggedRows(notifLog, u, "manual_reminder", "whatsapp",
                                         outcome, now)
            /\ lastOp' = [op |-> "send_immediate_reminder", user |-> u, at |-> now,
                          before |-> notifLog, attempted |-> {u},
                          attempts |-> {Attempt(u, "whatsapp", outcome)},
                          ret |-> (outcome # "failed")]
       ELSE /\ notifLog' = notifLog
            /\ lastOp' = [op |-> "send_immediate_reminder", user |-> u, at |-> now,
                          before |-> notifLog, attempted |-> {}, attempts |-> {},
                          ret |-> FALSE]
    /\ UNCHANGED <<now, ticks, sched, alerts, notifVars, users, meals, summaries, workers>>

\* the users of the reminder runs: verified with no preferences stored,
\* verified with the column's default preferences stored, verified with quiet hours
\* 9 to 17, verified with WhatsApp switched off, and not verified
VerifiedUser == [DefaultUser EXCEPT !.phone_verified = TRUE, !.has_phone = TRUE]

UserProfiles ==
    { VerifiedUser,
      [VerifiedUser EXCEPT !.notification_preferences =
          [whatsapp_enabled |-> TRUE, quiet_hours_start |-> 22, quiet_hours_end |-> 7]],
      [VerifiedUser EXCEPT !.notification_preferences =
          [quiet_hours_start |-> 9, quiet_hours_end |-> 17]],
      [VerifiedUser EXCEPT !.notification_preferences = [whatsapp_enabled |-> FALSE]],
      DefaultUser }

\* the hours at which the reminder runs start: 05:00, 08:00 and 20:00 of day 1
ReminderStarts == {OneDay + 5, OneDay + 8, OneDay + 20}

\* the meal logged in the reminder runs
ReminderMeal == [total_calories |-> 600, total_protein |-> 25]

InitReminder ==
    /\ now \in ReminderStarts
    /\ ticks = 0
    /\ notifs = {}
    /\ nextId = 1
    /\ sess = IdleSessions
    /\ \E p \in UserProfiles : users = [u \in UserIds |-> IF u = 1 THEN p ELSE VerifiedUser]
    /\ meals = {}
    /\ summaries = {}
    /\ notifLog = {}
    /\ workers = IdleWorkers
    /\ alerts = {}
    /\ sched = StoppedScheduler
    /\ lastOp = [op |-> "init"]

\* a user logs a meal between passes
LogReminderMeal ==
    /\ Cardinality(meals) < MaxReminderMeals
    /\ LogMeal(1, ReminderMeal, "none")

NextReminder ==
    \/ \E o \in SendOutcomes :
          CheckAndSendMealReminders([u \in UserIds |-> o], NoFailure)
    \/ CheckAndSendMealReminders([u \in UserIds |-> "sent"], 1)
    \/ SendImmediateReminder(1, "sent")
    \/ LogReminderMeal
    \/ Tick(1)

SpecReminder == InitReminder /\ [][NextReminder]_vars

----------------------------------------------------------------------------
(* The notification log as an audit trail: deliveries and the cleanup task *)

\* notification logs older than this many days are cleaned up
RetentionDays == 90

\* OldLogs with the retention of the report files
OldLogsSevenDays(log, t) == {r \in log : r.created_at < t - 7 * OneDay}

\* lines 250-260: the rows the cleanup task deletes
OldLogs(log, t) == {r \in log : r.created_at < t - RetentionDays * OneDay}

\* SchedulerService._cleanup_old_data(): the old rows of notification_logs
\* are deleted; the report files and one-time passwords it also clears are
\* no part of this state
CleanupOldData ==
    /\ notifLog' = notifLog \ OldLogs(notifLog, now)
    /\ lastOp' = [op |-> "cleanup_old_data", at |-> now, before |-> notifLog,
                  deleted |-> OldLogs(notifLog, now)]
    /\ UNCHANGED <<now, ticks, sched, alerts, notifVars, users, meals, summaries, workers>>

\* NotificationService.send_daily_summary(user_id): WhatsApp first, then
\* e-mail, each when enabled and the user has the address
SendDailySummary(u, wa, em) ==
    LET prefs == users[u].notification_preferences
        wanted == Get(prefs, "daily_summary", TRUE)
        hasData == FirstSummary(summaries, u, Today) # {}
        viaWhatsapp == WhatsappEnabled(users[u]) /\ users[u].phone_verified
        viaEmail == Get(prefs, "email_enabled", TRUE) /\ users[u].has_email
        waOutcome == IF users[u].has_phone THEN wa ELSE "failed"
        waRows == IF wanted /\ hasData /\ viaWhatsapp
                  THEN LoggedRows(notifLog, u, "daily_summary", "whatsapp", waOutcome, now)
                  ELSE {}
        emRows == IF wanted /\ hasData /\ viaEmail
                  THEN LoggedRows(notifLog \cup waRows, u, "daily_summary", "email", em, now)
                  ELSE {}
    IN  /\ Cardinality(notifLog) + 2 <= MaxLog
        /\ notifLog' = notifLog \cup waRows \cup emRows
        /\ lastOp' = [op |-> "send_daily_summary", user |-> u, at |-> now,
                      before |-> notifLog,
                      attempts |->
                          (IF wanted /\ hasData /\ viaWhatsapp
                           THEN {Attempt(u, "whatsapp", waOutcome)} ELSE {})
                          \cup (IF wanted /\ hasData /\ viaEmail
                                THEN {Attempt(u, "email", em)} ELSE {}),
                      ret |-> [success |-> (~wanted \/ hasData)]]
        /\ UNCHANGED <<now, ticks, sched, alerts, notifVars, users, meals, summaries, workers>>

\* user 1 has a verified phone and an e-mail address, user 2 a verified phone
AuditUsers ==
    [u \in UserIds |-> IF u = 1 THEN [VerifiedUser EXCEPT !.has_email = TRUE]
                       ELSE VerifiedUser]

\* user 1 has logged a meal today
AuditMeals == SeedMeals \cup {Meal(2, 1, ConcMeal, NotifStart)}

AuditSummaries ==
    SeedSummaries
    \cup {SummaryRow(2, 1, NotifStart \div 24,
                     ComputeSummary(AuditMeals, AuditUsers, 1, NotifStart \div 24),
                     NotifStart)}

InitAudit ==
    /\ now = NotifStart
    /\ ticks = 0
    /\ notifs = {}
    /\ nextId = 1
    /\ sess = IdleSessions
    /\ users = AuditUsers
    /\ meals = AuditMeals
    /\ summaries = AuditSummaries
    /\ notifLog = {}
    /\ workers = IdleWorkers
    /\ alerts = {}
    /\ sched = StoppedScheduler
    /\ lastOp = [op |-> "init"]

NextAudit ==
    \/ \E o \in SendOutcomes :
          CheckAndSendMealReminders([u \in UserIds |-> o], NoFailure)
    \/ SendImmediateReminder(2, "failed")
    \/ \E u \in UserIds, wa, em \in SendOutcomes : SendDailySummary(u, wa, em)
    \/ CleanupOldData
    \/ \E d \in {1, RetentionDays * OneDay} : Tick(d)

SpecAudit == InitAudit /\ [][NextAudit]_vars

\* the last step made delivery attempts
Delivering ==
    lastOp.op \in {"check_and_send_meal_reminders", "send_immediate_reminder",
                   "send_daily_summary"}

\* the rows the last step added for the attempt a
RowsFor(a) ==
    {r \in notifLog \ lastOp.before : r.user_id = a.user /\ r.channel = a.channel}

\* the attempt a left exactly one row, with its channel and its status, an
\* error message exactly on failure, and a failure was returned, not raised
LoggedOnce(a) ==
    /\ Cardinality(RowsFor(a)) = 1
    /\ \A r \in RowsFor(a) :
          /\ r.status = (IF a.success THEN "sent" ELSE "failed")
          /\ (r.status = "failed") <=> (r.error_message # "")
    /\ a.outcome = "failed" => ~a.success

C15_LogIsAppendOnly == [][notifLog \subseteq notifLog']_vars

\* C15 amended: no step changes a row of the notification log, and a row is
\* removed only by the cleanup task and only once it is more than 90 days old.
C15_LogKeptForNinetyDays ==
    [][\A r \in notifLog :
          \/ r \in notifLog'
          \/ (lastOp'.op = "cleanup_old_data" /\ r.created_at < now - 90 * 24)]_vars

\* C15 witness: a cleanup that deleted a row and kept a younger one
C15_Witness ==
    /\ lastOp.op = "cleanup_old_data"
    /\ lastOp.deleted # {}
    /\ notifLog # {}
    /\ notifLog \subseteq lastOp.before

----------------------------------------------------------------------------
(* Generating notifications: generate_smart_notifications                  *)
(* Times are whole hours: the reminders of 07:30, 12:30, 18:30 and 21:30    *)
(* are kept at their hour; a call at hour h is a call at h:00.              *)

\* bound on the rows of smart_notifications in the generation runs
MaxQueue == 30

\* what _create_notification is called with
Planned(ntype, title, at, recurring) ==
    [notification_type |-> ntype, title |-> title, scheduled_time |-> at,
     is_recurring |-> recurring,
     recurrence_pattern |-> IF recurring THEN "daily" ELSE "none"]

\* _generate_meal_reminders for the day k days ahead, no eating pattern
\* stored: 30 minutes before 08:00, 13:00 and 19:00
MealRemindersFor(t, k) ==
    LET day == (t \div 24 + k) * OneDay
    IN  << Planned("meal_reminder", "Breakfast Reminder", day + 7, FALSE),
           Planned("meal_reminder", "Lunch Reminder", day + 12, FALSE),
           Planned("meal_reminder", "Dinner Reminder", day + 18, FALSE) >>

\* _generate_hydration_reminders: 09:00 and 15:00 of tomorrow
HydrationReminders(t) ==
    LET tomorrow == (t \div 24 + 1) * OneDay
    IN  << Planned("hydration", "Morning Hydration", tomorrow + 9, TRUE),
           Planned("hydration", "Afternoon Hydration Check", tomorrow + 15, TRUE) >>

\* _generate_goal_check_reminders: 20:00 of tomorrow when goals are stored
GoalCheckReminders(t, goals) ==
    IF goals = EmptyDict THEN <<>>
    ELSE << Planned("goal_check", "Daily Goal Check-in",
                    (t \div 24 + 1) * OneDay + 20, TRUE) >>

\* _generate_health_tip_notifications: 10:00 of tomorrow (a default tip
\* always exists)
HealthTipNotifications(t) ==
    << Planned("health_tip", "Daily Health Tip", (t \div 24 + 1) * OneDay + 10, FALSE) >>

\* _generate_meal_planning_reminders: 21:30 of today while that is ahead
MealPlanningReminders(t) ==
    IF t % 24 <= 21
    THEN << Planned("meal_planning", "Plan Tomorrow's Meals", (t \div 24) * OneDay + 21, TRUE) >>
    ELSE <<>>

\* lines 48-66: everything one call creates, in order
PlannedNotifications(t, goals) ==
    MealRemindersFor(t, 1) \o MealRemindersFor(t, 2) \o MealRemindersFor(t, 3)
    \o HydrationReminders(t) \o GoalCheckReminders(t, goals)
    \o HealthTipNotifications(t) \o MealPlanningReminders(t)

\* _create_notification for each planned notification: ids from nid on
CreatedNotifications(u, plan, nid) ==
    {SmartNotification(nid + i - 1, u, plan[i].notification_type, plan[i].title,
                       plan[i].scheduled_time, plan[i].is_recurring,
                       plan[i].recurrence_pattern) : i \in DOMAIN plan}

\* SmartNotificationService.generate_smart_notifications(user_id)
GenerateSmartNotifications(u) ==
    LET plan == PlannedNotifications(now, users[u].daily_goals)
    IN  /\ Cardinality(notifs) + Len(plan) <= MaxQueue
        /\ notifs' = notifs \cup CreatedNotifications(u, plan, nextId)
        /\ nextId' = nextId + Len(plan)
        /\ lastOp' = [op |-> "generate_smart_notifications", user |-> u, at |-> now,
                      ret |-> [notifications_generated |-> Len(plan)]]
        /\ UNCHANGED <<now, ticks, sess, mealVars>>

\* goals as set_user_goals stores them
StoredGoals ==
    [calories |-> 2000, protein |-> 50, carbs |-> 250, fat |-> 65, fiber |-> 25]

\* 08:00 of day 1, nothing generated yet; user 1 with or without goals
InitGenerate ==
    /\ now = NotifStart
    /\ ticks = 0
    /\ notifs = {}
    /\ nextId = 1
    /\ sess = IdleSessions
    /\ \E goals \in {EmptyDict, StoredGoals} :
          users = [u \in UserIds |->
                      IF u = 1 THEN [DefaultUser EXCEPT !.daily_goals = goals]
                      ELSE DefaultUser]
    /\ meals = {}
    /\ summaries = {}
    /\ notifLog = {}
    /\ workers = IdleWorkers
    /\ alerts = {}
    /\ sched = StoppedScheduler
    /\ lastOp = [op |-> "init"]

NextGenerate ==
    \/ \E u \in UserIds : GenerateSmartNotifications(u)
    \/ \E u \in UserIds : GetPendingNotifications(u)
    \/ \E d \in {1, OneDay} : Tick(d)

SpecGenerate == InitGenerate /\ [][NextGenerate]_vars

\* C28: at most one pending notification per (user, notification_type,
\* title, scheduled_time), however often generate_smart_notifications ran.
C28_OnePendingPerReminder ==
    \A a, b \in notifs :
        (/\ ~a.is_sent /\ ~b.is_sent
         /\ a.user_id = b.user_id
         /\ a.notification_type = b.notification_type
         /\ a.title = b.title
         /\ a.scheduled_time = b.scheduled_time)
        => a.id = b.id

----------------------------------------------------------------------------
(* Calendar sync: the route sync_meal_calendar next to log_meal *)

\* the requests of the calendar runs: meals logged by either user, and the
\* calendar sync of a stored or an unknown meal
NextCalendar ==
    \/ \E u \in UserIds : LogMeal(u, ConcMeal, "none")
    \/ \E id \in {1, 2} : UpdateMealCalendarInfo(id)
    \/ Tick(OneDay)

SpecCalendar == InitSummary /\ [][NextCalendar]_vars

\* C27: every stored DailySummary equals the recomputation from the meals now
\* on its date: each total is the sum over the user's meals of that date and
\* meals_count their number.
C27_SummariesMatchMeals ==
    \A r \in summaries :
        /\ r.total_calories = TotalUpTo(MaxMeals + 1, r.user_id, r.date, "total_calories")
        /\ r.total_protein = TotalUpTo(MaxMeals + 1, r.user_id, r.date, "total_protein")
        /\ r.total_carbs = TotalUpTo(MaxMeals + 1, r.user_id, r.date, "total_carbs")
        /\ r.total_fat = TotalUpTo(MaxMeals + 1, r.user_id, r.date, "total_fat")
        /\ r.total_fiber = TotalUpTo(MaxMeals + 1, r.user_id, r.date, "total_fiber")
        /\ r.meals_count = Cardinality({m \in meals : m.user_id = r.user_id
                                                       /\ m.upload_date = r.date})

----------------------------------------------------------------------------
(* The scheduler service: start, stop and the loop thread                  *)
(* The job list is the schedule module's, one per process; stop() does not *)
(* clear it.                                                               *)

\* bound on the jobs registered in the schedule module
MaxJobs == 12

\* the periodic tasks of _schedule_tasks, in the order they are registered
Tasks ==
    << "check_meal_reminders", "send_daily_summaries", "send_weekly_summaries",
       "check_monthly_summaries", "cleanup_old_data", "health_check" >>

\* the first time after t at which the hour of day is hour
NextAt(t, hour) ==
    IF t % 24 < hour THEN (t \div 24) * OneDay + hour
    ELSE (t \div 24 + 1) * OneDay + hour

\* the first Sunday (weekday 6) after t at the hour
NextSundayAt(t, hour) ==
    CHOOSE x \in (t + 1)..(t + 7 * OneDay) :
        /\ x % 24 = hour
        /\ Weekday(x \div 24) = 6
        /\ \A y \in (t + 1)..(x - 1) : ~(y % 24 = hour /\ Weekday(y \div 24) = 6)

\* when a job of the task registered or run at t is due next; the health
\* check, every 30 minutes, is due again by the next whole hour
NextRun(task, t) ==
    CASE task = "check_meal_reminders" -> t + 2
      [] task = "send_daily_summaries" -> NextAt(t, 21)
      [] task = "send_weekly_summaries" -> NextSundayAt(t, 20)
      [] task = "check_monthly_summaries" -> NextAt(t, 19)
      [] task = "cleanup_old_data" -> NextAt(t, 2)
      [] task = "health_check" -> t + 1

\* _schedule_tasks: one more job per task, appended to the jobs there are
ScheduleTasks(jobs, t) ==
    jobs \cup {[id |-> Cardinality(jobs) + i, task |-> Tasks[i],
                next_run |-> NextRun(Tasks[i], t)] : i \in DOMAIN Tasks}

\* SchedulerService.start()
SchedulerStart ==
    /\ Cardinality(sched.jobs) + Len(Tasks) <= MaxJobs
    /\ sched' = IF sched.running THEN sched
                ELSE [running |-> TRUE,
                      jobs |-> ScheduleTasks(sched.jobs, now),
                      loops |-> sched.loops + 1]
    /\ lastOp' = [op |-> "start", at |-> now, was_running |-> sched.running]
    /\ UNCHANGED <<now, ticks, notifVars, users, meals, summaries, notifLog, workers, alerts>>

\* SchedulerService.stop(): clears the flag and waits up to 5 seconds for the
\* thread, which sleeps 60 seconds between two looks at the flag
SchedulerStop ==
    /\ sched' = [sched EXCEPT !.running = FALSE]
    /\ lastOp' = [op |-> "stop", at |-> now]
    /\ UNCHANGED <<now, ticks, notifVars, users, meals, summaries, notifLog, workers, alerts>>

\* _run_scheduler: a loop thread wakes, finds the flag cleared and ends
LoopExit ==
    /\ sched.loops > 0
    /\ ~sched.running
    /\ sched' = [sched EXCEPT !.loops = sched.loops - 1]
    /\ lastOp' = [op |-> "loop_exit", at |-> now]
    /\ UNCHANGED <<now, ticks, notifVars, users, meals, summaries, notifLog, workers, alerts>>

\* _run_scheduler: a loop thread wakes with the flag set and runs the jobs
\* that are due (schedule.run_pending); with no user and no log row stored
\* the tasks change no table
RunPending ==
    LET due == {j \in sched.jobs : j.next_run <= now}
    IN  /\ sched.loops > 0
        /\ sched.running
        /\ users = [u \in {} |-> 0] /\ notifLog = {}
        /\ sched' = [sched EXCEPT !.jobs =
                        (sched.jobs \ due)
                        \cup {[j EXCEPT !.next_run = NextRun(j.task, now)] : j \in due}]
        /\ lastOp' = [op |-> "run_pending", at |-> now,
                      fired |-> [i \in DOMAIN Tasks |->
                                    Cardinality({j \in due : j.task = Tasks[i]})]]
        /\ UNCHANGED <<now, ticks, notifVars, users, meals, summaries, notifLog, workers,
                       alerts>>

\* the process at startup, before startup_event: nothing stored, 08:00 of day 1
InitScheduler ==
    /\ now = NotifStart
    /\ ticks = 0
    /\ notifs = {}
    /\ nextId = 1
    /\ sess = IdleSessions
    /\ NoMealState
    /\ lastOp = [op |-> "init"]

NextScheduler ==
    \/ SchedulerStart
    \/ SchedulerStop
    \/ LoopExit
    \/ RunPending
    \/ Tick(1)

SpecScheduler == InitScheduler /\ [][NextScheduler]_vars

\* C29: while the service is running every periodic task is registered exactly
\* once and at most one loop thread is alive; no task fires twice in one run
\* of the pending jobs.
C29_EachTaskScheduledOnce ==
    /\ sched.running =>
          /\ \A i \in DOMAIN Tasks :
                Cardinality({j \in sched.jobs : j.task = Tasks[i]}) = 1
          /\ sched.loops <= 1
    /\ lastOp.op = "run_pending" =>
          \A i \in DOMAIN Tasks : lastOp.fired[i] <= 1

----------------------------------------------------------------------------
(* Health monitoring: HealthMonitoringService and the health_alerts table *)

\* bound on the rows of health_alerts
MaxAlerts == 6

\* _get_recent_meals, _get_recent_summaries: the window in days
MonitorDays == 14

\* HealthAlert(...) as _create_alert fills it
HealthAlert(id, u, rule, expires, t) ==
    [id |-> id, user_id |-> u, alert_type |-> rule.alert_type,
     severity |-> rule.severity, title |-> rule.title,
     is_read |-> FALSE, is_dismissed |-> FALSE,
     triggered_at |-> t, expires_at |-> expires]

\* lines 575-581: the expiry by alert type, NULL for any other type
ExpiresAt(alert_type, t) ==
    IF alert_type \in {"nutrition_gap", "pattern_concern"} THEN t + 7 * OneDay
    ELSE IF alert_type = "goal_deviation" THEN t + 3 * OneDay
    ELSE IF alert_type = "health_risk" THEN t + 14 * OneDay
    ELSE NULL

\* the alert each rule of the monitor creates
LowProtein == [alert_type |-> "nutrition_gap", severity |-> "medium",
               title |-> "Low Protein Intake Detected"]
HighCalories == [alert_type |-> "calorie_excess", severity |-> "medium",
                 title |-> "High Calorie Intake Pattern"]
HighCarbShare == [alert_type |-> "nutrition_gap", severity |-> "low",
                  title |-> "High Carbohydrate Intake"]
LimitedVariety == [alert_type |-> "nutrition_gap", severity |-> "low",
                   title |-> "Limited Food Variety"]
LateDinners == [alert_type |-> "pattern_concern", severity |-> "medium",
                title |-> "Late Dinner Pattern Detected"]
SkippedBreakfasts == [alert_type |-> "pattern_concern", severity |-> "medium",
                      title |-> "Breakfast Skipping Pattern"]
CalorieGoalMissed == [alert_type |-> "goal_deviation", severity |-> "medium",
                      title |-> "Calorie Goal Adherence Issue"]
ProteinGoalMissed == [alert_type |-> "goal_deviation", severity |-> "medium",
                      title |-> "Protein Goal Not Being Met"]
HighCarbRisk == [alert_type |-> "health_risk", severity |-> "high",
                 title |-> "High Carbohydrate Intake Risk"]
CardiovascularRisk == [alert_type |-> "health_risk", severity |-> "high",
                       title |-> "Cardiovascular Risk Pattern"]
DeficiencyRisk == [alert_type |-> "health_risk", severity |-> "high",
                   title |-> "Potential Nutritional Deficiency Risk"]

\* lines 547-567: the meals and summaries of the last 14 days
RecentMeals(mealStore, u, d) ==
    {m \in mealStore : m.user_id = u /\ m.upload_date >= d - MonitorDays}

RecentSummaries(sumStore, u, d) ==
    {r \in sumStore : r.user_id = u /\ r.date >= d - MonitorDays}

\* the sum of column k over the rows rs
RECURSIVE SumRows(_, _)
SumRows(rs, k) ==
    IF rs = {} THEN 0
    ELSE LET r == CHOOSE x \in rs : TRUE IN r[k] + SumRows(rs \ {r}, k)

\* the rows whose column k is positive: what lines 88-91 average over
Positive(rs, k) == {r \in rs : r[k] > 0}

\* lines 88-91: statistics.mean raises on an empty list
MeanRaises(rs) ==
    \E k \in {"total_calories", "total_protein", "total_carbs", "total_fat"} :
        Positive(rs, k) = {}

\* line 133-137: avg_carbs * 4 / avg_calories * 100 > 70, over integers
CarbShareHigh(rs) ==
    SumRows(Positive(rs, "total_carbs"), "total_carbs") * 400
        * Cardinality(Positive(rs, "total_calories"))
    > 70 * SumRows(Positive(rs, "total_calories"), "total_calories")
        * Cardinality(Positive(rs, "total_carbs"))

\* _analyze_food_variety: the meals of this model list no food items
UniqueFoods(ms) == 0

If(cond, rule) == IF cond THEN <<rule>> ELSE <<>>

\* _monitor_nutrition_patterns, lines 76-170
NutritionRules(ms, rs) ==
    IF rs = {} THEN <<>>
    ELSE If(Cardinality({r \in rs : r.total_protein < 50}) >= 3, LowProtein)
         \o If(Cardinality({r \in rs : r.total_calories > 2500}) >= 3, HighCalories)
         \o If(CarbShareHigh(rs), HighCarbShare)
         \o If(UniqueFoods(ms) < 15, LimitedVariety)

\* _monitor_eating_patterns, lines 172-238
EatingRules(ms) ==
    LET dates == {m.upload_date : m \in ms}
        late == {d \in dates : \E m \in ms : m.upload_date = d /\ m.upload_time % 24 >= 21}
        skipped == {d \in dates :
                       ~\E m \in ms : m.upload_date = d /\ m.upload_time % 24 <= 11}
    IN  IF Cardinality(ms) < 5 THEN <<>>
        ELSE If(Cardinality(late) >= 3, LateDinners)
             \o If(Cardinality(skipped) >= 3, SkippedBreakfasts)

\* |a - b|
AbsDiff(a, b) == IF a >= b THEN a - b ELSE b - a

\* _monitor_goal_adherence, lines 240-298
GoalRules(rs, goals) ==
    LET goal_calories == Get(goals, "calories", 2000)
        goal_protein == Get(goals, "protein", 60)
    IN  IF goals = EmptyDict \/ rs = {} THEN <<>>
        ELSE If(Cardinality({r \in rs : AbsDiff(r.total_calories, goal_calories) > 500}) >= 4,
                CalorieGoalMissed)
             \o If(Cardinality({r \in rs : r.total_protein < goal_protein - 20}) >= 4,
                   ProteinGoalMissed)

\* _assess_health_risks, lines 300-368
RiskRules(rs) ==
    IF rs = {} THEN <<>>
    ELSE If(Cardinality({r \in rs : r.total_carbs > 300}) >= 5, HighCarbRisk)
         \o If(Cardinality({r \in rs : r.total_calories > 2500 /\ r.total_fat > 80}) >= 4,
               CardiovascularRisk)
         \o If(Cardinality({r \in rs : r.total_calories < 1200}) >= 3, DeficiencyRisk)

\* the rules that fire in one run, in the order of lines 38-59; none when
\* the averages of the first monitor raise
FiredRules(mealStore, sumStore, userTable, u, d) ==
    LET ms == RecentMeals(mealStore, u, d)
        rs == RecentSummaries(sumStore, u, d)
    IN  IF rs # {} /\ MeanRaises(rs) THEN <<>>
        ELSE NutritionRules(ms, rs) \o EatingRules(ms)
             \o GoalRules(rs, userTable[u].daily_goals) \o RiskRules(rs)

\* _create_alert for each fired rule in turn
RECURSIVE CreateAlerts(_, _, _, _)
CreateAlerts(table, u, rules, t) ==
    IF rules = <<>> THEN table
    ELSE CreateAlerts(table \cup {HealthAlert(NewId(table), u, Head(rules),
                                              ExpiresAt(Head(rules).alert_type, t), t)},
                      u, Tail(rules), t)

\* HealthMonitoringService.run_health_monitoring(user_id)
RunHealthMonitoring(u) ==
    LET rs == RecentSummaries(summaries, u, Today)
        fired == FiredRules(meals, summaries, users, u, Today)
    IN  /\ Cardinality(alerts) + Len(fired) <= MaxAlerts
        /\ alerts' = CreateAlerts(alerts, u, fired, now)
        /\ lastOp' = [op |-> "run_health_monitoring", user |-> u, at |-> now,
                      ret |-> [error |-> (rs # {} /\ MeanRaises(rs)),
                               alerts_generated |-> Len(fired)]]
        /\ UNCHANGED <<now, ticks, sched, notifVars, users, meals, summaries, notifLog, workers>>

\* HealthMonitoringService.dismiss_alert(user_id, alert_id)
DismissAlert(u, id) ==
    /\ alerts' = {IF a.id = id /\ a.user_id = u THEN [a EXCEPT !.is_dismissed = TRUE]
                  ELSE a : a \in alerts}
    /\ lastOp' = [op |-> "dismiss_alert", user |-> u, id |-> id,
                  ret |-> (\E a \in alerts : a.id = id /\ a.user_id = u)]
    /\ UNCHANGED <<now, ticks, sched, notifVars, users, meals, summaries, notifLog, workers>>

\* HealthMonitoringService.mark_alert_read(user_id, alert_id)
MarkAlertRead(u, id) ==
    /\ alerts' = {IF a.id = id /\ a.user_id = u THEN [a EXCEPT !.is_read = TRUE]
                  ELSE a : a \in alerts}
    /\ lastOp' = [op |-> "mark_alert_read", user |-> u, id |-> id,
                  ret |-> (\E a \in alerts : a.id = id /\ a.user_id = u)]
    /\ UNCHANGED <<now, ticks, sched, notifVars, users, meals, summaries, notifLog, workers>>

\* line 4: the names the module imports from sqlalchemy
ImportedNames == {"desc", "and_", "func"}

\* lines 474-482: the filter of get_active_alerts
ActiveFilter(table, u, t) ==
    {a \in table : /\ a.user_id = u
                   /\ ~a.is_dismissed
                   /\ (a.expires_at = NULL \/ a.expires_at > t)}

\* the place of a severity in the order of the store's strings
Collation(severity) ==
    CASE severity = "critical" -> 1
      [] severity = "high" -> 2
      [] severity = "low" -> 3
      [] severity = "medium" -> 4

\* lines 483-486: desc(severity), desc(triggered_at); rows equal in both come
\* in the order of their ids
ComesFirst(a, b) ==
    \/ Collation(a.severity) > Collation(b.severity)
    \/ /\ a.severity = b.severity
       /\ \/ a.triggered_at > b.triggered_at
          \/ (a.triggered_at = b.triggered_at /\ a.id < b.id)

RECURSIVE Ordered(_)
Ordered(rows) ==
    IF rows = {} THEN <<>>
    ELSE LET first == CHOOSE a \in rows : \A b \in rows \ {a} : ComesFirst(a, b)
         IN  <<first>> \o Ordered(rows \ {first})

\* lines 471-505: building the filter evaluates or_, which the module does not
\* import; the NameError is caught and [] returned
ActiveAlerts(table, u, t) ==
    IF "or_" \in ImportedNames THEN Ordered(ActiveFilter(table, u, t)) ELSE <<>>

\* HealthMonitoringService.get_active_alerts(user_id)
GetActiveAlerts(u) ==
    /\ lastOp' = [op |-> "get_active_alerts", user |-> u, at |-> now,
                  ret |-> ActiveAlerts(alerts, u, now)]
    /\ UNCHANGED <<now, ticks, notifVars, mealVars>>

\* the meal histories of user 1 on days 1 to 3: three heavy days, three lean
\* days, three days logged with calories only
HistoryMeals ==
    { [total_calories |-> 2600, total_protein |-> 60, total_carbs |-> 300,
       total_fat |-> 70, total_fiber |-> 20],
      [total_calories |-> 1000, total_protein |-> 20, total_carbs |-> 100,
       total_fat |-> 30, total_fiber |-> 10],
      [total_calories |-> 500] }

\* the meals of a day with a portion of 500 kcal
Portion ==
    [total_calories |-> 500, total_protein |-> 10, total_carbs |-> 50,
     total_fat |-> 15, total_fiber |-> 5]

\* one meal with the analysis data at each of the hours, on each of days 1 to 3
History(data, hours) ==
    {Meal((d - 1) * Len(hours) + i, 1, data, d * OneDay + hours[i]) :
        d \in 1..3, i \in DOMAIN hours}

\* the histories of user 1: the three above with one meal at 12:00, and two
\* meals a day at 11:00 and 14:00, or at 13:00 and 21:00
Histories ==
    {History(data, <<12>>) : data \in HistoryMeals}
    \cup {History(Portion, <<11, 14>>), History(Portion, <<13, 21>>)}

\* the summaries log_meal left for the history h, written with the day's last meal
HistorySummaries(h) ==
    {SummaryRow(d, 1, d, ComputeSummary(h, SeedUsers, 1, d),
                CHOOSE t \in {m.upload_time : m \in MealsOn(h, 1, d)} :
                    \A m \in MealsOn(h, 1, d) : m.upload_time <= t) : d \in 1..3}

\* the all-zero summary get_daily_dashboard stored when user 2, who has no
\* meals, opened the dashboard of day 3
ViewedEmptyDay ==
    {SummaryRow(4, 2, 3, ComputeSummary({}, SeedUsers, 2, 3), 3 * OneDay + 12)}

\* 08:00 of day 4
HealthStart == 4 * OneDay + 8

InitHealth ==
    /\ now = HealthStart
    /\ ticks = 0
    /\ notifs = {}
    /\ nextId = 1
    /\ sess = IdleSessions
    /\ users = SeedUsers
    /\ \E h \in Histories, viewed \in {{}, ViewedEmptyDay} :
          /\ meals = h
          /\ summaries = HistorySummaries(h) \cup viewed
    /\ notifLog = {}
    /\ workers = IdleWorkers
    /\ alerts = {}
    /\ sched = StoppedScheduler
    /\ lastOp = [op |-> "init"]

NextHealth ==
    \/ \E u \in UserIds : RunHealthMonitoring(u)
    \/ \E u \in UserIds, id \in 1..2 : DismissAlert(u, id)
    \/ MarkAlertRead(1, 1)
    \/ \E u \in UserIds : GetActiveAlerts(u)
    \/ \E d \in {OneDay, 7 * OneDay} : Tick(d)

SpecHealth == InitHealth /\ [][NextHealth]_vars

----------------------------------------------------------------------------
(* The scheduled daily summaries: SchedulerService._send_daily_summaries *)

\* bound on the rows of notification_logs in the summary runs
MaxDigestLog == 4

\* lines 119-125: the users the pass selects: phone verified, and the
\* preference daily_summary stored as true
DailySummaryUsers(userTable) ==
    {u \in UserIds :
        /\ userTable[u].phone_verified
        /\ Get(userTable[u].notification_preferences, "daily_summary", FALSE)}

\* send_daily_summary lines 400-416: the user wants the summary and has a
\* summary row for today
SummaryDue(userTable, sumStore, u, d) ==
    /\ Get(userTable[u].notification_preferences, "daily_summary", TRUE)
    /\ FirstSummary(sumStore, u, d) # {}

\* send_daily_summary lines 423-441: the attempts for one user, WhatsApp
\* before e-mail
SummaryChannels(userTable, sumStore, u, d) ==
    LET usr == userTable[u]
    IN  IF ~SummaryDue(userTable, sumStore, u, d) THEN <<>>
        ELSE (IF WhatsappEnabled(usr) /\ usr.phone_verified THEN <<"whatsapp">> ELSE <<>>)
             \o (IF Get(usr.notification_preferences, "email_enabled", TRUE) /\ usr.has_email
                 THEN <<"email">> ELSE <<>>)

\* the outcome of the send on a channel: wa for WhatsApp, em for e-mail
ChannelOutcome(channel, wa, em) == IF channel = "whatsapp" THEN wa ELSE em

\* the log after the sends on the channels chs for user u
RECURSIVE LogAfterChannels(_, _, _, _, _, _)
LogAfterChannels(log, u, chs, wa, em, t) ==
    IF chs = <<>> THEN log
    ELSE LogAfterChannels(
             log \cup LoggedRows(log, u, "daily_summary", Head(chs),
                                 ChannelOutcome(Head(chs), wa, em), t),
             u, Tail(chs), wa, em, t)

\* the log after send_daily_summary for the users of us, in the order of
\* their ids
RECURSIVE LogAfterSummaries(_, _, _, _, _, _, _)
LogAfterSummaries(log, us, userTable, sumStore, wa, em, t) ==
    IF us = {} THEN log
    ELSE LET u == CHOOSE x \in us : \A y \in us : x <= y
         IN  LogAfterSummaries(
                 LogAfterChannels(log, u, SummaryChannels(userTable, sumStore, u, t \div 24),
                                  wa, em, t),
                 us \ {u}, userTable, sumStore, wa, em, t)

\* SchedulerService._send_daily_summaries: send_daily_summary for every
\* selected user
SendDailySummaries(wa, em) ==
    LET selected == DailySummaryUsers(users)
        channels == [u \in selected |-> SummaryChannels(users, summaries, u, Today)]
    IN  /\ Cardinality(notifLog) + 2 * Cardinality(selected) <= MaxDigestLog
        /\ notifLog' = LogAfterSummaries(notifLog, selected, users, summaries, wa, em, now)
        /\ lastOp' = [op |-> "_send_daily_summaries", at |-> now,
                      selected |-> selected,
                      attempts |->
                          UNION {{Attempt(u, channels[u][i],
                                          ChannelOutcome(channels[u][i], wa, em)) :
                                      i \in DOMAIN channels[u]} : u \in selected}]
        /\ UNCHANGED <<now, ticks, sched, alerts, notifVars, users, meals, summaries, workers>>

\* the preferences of a user who asked for the daily summary
WantsSummary == [daily_summary |-> TRUE]

\* user 1 of the summary runs: verified phone and e-mail address, e-mail
\* address only, verified phone only, and summary switched off
DigestProfiles ==
    { [VerifiedUser EXCEPT !.has_email = TRUE, !.notification_preferences = WantsSummary],
      [DefaultUser EXCEPT !.has_email = TRUE, !.notification_preferences = WantsSummary],
      [VerifiedUser EXCEPT !.notification_preferences = WantsSummary],
      [VerifiedUser EXCEPT !.has_email = TRUE,
                           !.notification_preferences = [daily_summary |-> FALSE]] }

\* user 1 has a summary for today; user 2, verified with an e-mail address,
\* has logged nothing yet
InitDigest ==
    /\ now = NotifStart
    /\ ticks = 0
    /\ notifs = {}
    /\ nextId = 1
    /\ sess = IdleSessions
    /\ \E p \in DigestProfiles :
          users = [u \in UserIds |->
                      IF u = 1 THEN p
                      ELSE [VerifiedUser EXCEPT !.has_email = TRUE,
                                                !.notification_preferences = WantsSummary]]
    /\ meals = AuditMeals
    /\ summaries = AuditSummaries
    /\ notifLog = {}
    /\ workers = IdleWorkers
    /\ alerts = {}
    /\ sched = StoppedScheduler
    /\ lastOp = [op |-> "init"]

NextDigest ==
    \/ \E wa, em \in SendOutcomes : SendDailySummaries(wa, em)
    \/ LogMeal(2, ConcMeal, "none")
    \/ Tick(1)

SpecDigest == InitDigest /\ [][NextDigest]_vars

\* C22: in a scheduled daily summary pass every user whose daily_summary
\* flag is enabled and who has a summary for today gets a WhatsApp attempt
\* exactly when the phone is verified (and WhatsApp is not switched off) and an
\* e-mail attempt exactly when an e-mail address is stored (and e-mail is not
\* switched off), whatever the other channel did.
C22_ChannelsAttemptedIndependently ==
    lastOp.op = "_send_daily_summaries" =>
        \A u \in UserIds :
            LET usr == users[u]
                tried(ch) == \E a \in lastOp.attempts : a.user = u /\ a.channel = ch
            IN  (/\ Get(usr.notification_preferences, "daily_summary", FALSE)
                 /\ FirstSummary(summaries, u, lastOp.at \div 24) # {})
                => /\ tried("whatsapp") <=> (usr.phone_verified /\ WhatsappEnabled(usr))
                   /\ tried("email") <=>
                         (usr.has_email
                          /\ Get(usr.notification_preferences, "email_enabled", TRUE))

----------------------------------------------------------------------------
(* Claims about health alerts *)

\* the user's alerts that are not dismissed and not expired
Active(u) ==
    {a \in alerts : /\ a.user_id = u
                    /\ ~a.is_dismissed
                    /\ (a.expires_at = NULL \/ a.expires_at > now)}

\* the ids get_active_alerts returned
Returned == {lastOp.ret[i].id : i \in DOMAIN lastOp.ret}

\* C17: get_active_alerts(user) returns exactly the user's alerts that are
\* not dismissed and whose expires_at is null or later than now.
C17_ActiveAlertsReturned ==
    lastOp.op = "get_active_alerts" =>
        Returned = {a.id : a \in Active(lastOp.user)}

\* severity as the claim ranks it
SeverityRank(severity) ==
    CASE severity = "critical" -> 4
      [] severity = "high" -> 3
      [] severity = "medium" -> 2
      [] severity = "low" -> 1

\* C18: in the list get_active_alerts returns, an active alert of higher
\* severity stands before every active alert of lower severity, and of two
\* active alerts of equal severity the one triggered later stands first.
C18_OrderedBySeverityThenRecency ==
    lastOp.op = "get_active_alerts" =>
        /\ \A i, j \in DOMAIN lastOp.ret :
              i < j => \/ SeverityRank(lastOp.ret[i].severity)
                             > SeverityRank(lastOp.ret[j].severity)
                       \/ /\ lastOp.ret[i].severity = lastOp.ret[j].severity
                          /\ lastOp.ret[i].triggered_at >= lastOp.ret[j].triggered_at
        /\ \A a, b \in Active(lastOp.user) :
              (\/ SeverityRank(a.severity) > SeverityRank(b.severity)
               \/ (a.severity = b.severity /\ a.triggered_at > b.triggered_at))
              => \E i, j \in DOMAIN lastOp.ret :
                    i < j /\ lastOp.ret[i].id = a.id /\ lastOp.ret[j].id = b.id

\* C19: every alert a monitoring run created has an expiry: 7 days after its
\* creation for nutrition_gap and pattern_concern, 3 days for goal_deviation,
\* 14 days for health_risk, and some later time for any other type, so that
\* it stops being active without being dismissed.
C19_EveryAlertExpires ==
    \A a \in alerts :
        /\ a.expires_at # NULL
        /\ a.expires_at > a.triggered_at
        /\ a.alert_type \in {"nutrition_gap", "pattern_concern"}
              => a.expires_at = a.triggered_at + 7 * 24
        /\ a.alert_type = "goal_deviation" => a.expires_at = a.triggered_at + 3 * 24
        /\ a.alert_type = "health_risk" => a.expires_at = a.triggered_at + 14 * 24

\* C21: run_health_monitoring for an existing user never ends in an error
\* for lack of data: with no meals, with all-zero summaries or with a nutrient
\* that is zero on every day of the window it completes.
C21_MonitoringNeverErrorsOnMissingData ==
    lastOp.op = "run_health_monitoring" => ~lastOp.ret.error

\* the days in the window on which user u logged a meal, none of them before
\* 11:00
DaysWithoutBreakfast(u, t) ==
    LET ms == {m \in meals : m.user_id = u /\ m.upload_date >= t \div 24 - 14}
    IN  {d \in {m.upload_date : m \in ms} :
            \A m \in ms : m.upload_date = d => m.upload_time % 24 >= 11}

\* C26: a monitoring run over at least 5 recent meals emits the
\* breakfast-skipping alert exactly when on at least 3 distinct days no meal
\* was logged before 11:00; a day whose earliest meal is at 11:00 or later
\* counts as skipped.
C26_BreakfastSkippedBeforeEleven ==
    (/\ lastOp.op = "run_health_monitoring"
     /\ ~lastOp.ret.error
     /\ Cardinality({m \in meals : m.user_id = lastOp.user
                                    /\ m.upload_date >= lastOp.at \div 24 - 14}) >= 5)
    => ((\E a \in alerts : /\ a.user_id = lastOp.user
                           /\ a.triggered_at = lastOp.at
                           /\ a.alert_type = "pattern_concern"
                           /\ a.title = "Breakfast Skipping Pattern")
        <=> Cardinality(DaysWithoutBreakfast(lastOp.user, lastOp.at)) >= 3)

\* C20: at any time at most one alert of a (user, alert_type, title) is active.
C20_OneActiveAlertPerRule ==
    \A u \in UserIds :
        \A a, b \in Active(u) :
            (a.alert_type = b.alert_type /\ a.title = b.title) => a.id = b.id

----------------------------------------------------------------------------
(* Claims about meal reminders *)

\* the last step was a pass of check_and_send_meal_reminders
ReminderPass == lastOp.op = "check_and_send_meal_reminders"

\* C4: a pass attempts no meal_reminder send to a user for whom the log held,
\* when the pass ran, a meal_reminder row created less than 2 hours before; a
\* row created more than 2 hours before suppresses nothing: a user who passes
\* the other tests and has only such meal_reminder rows is sent to. Only the
\* persisted rows decide.
C4_RecentReminderSuppresses ==
    ReminderPass =>
        \A u \in UserIds :
            LET mine == {r \in lastOp.before :
                            r.user_id = u /\ r.notification_type = "meal_reminder"}
            IN  /\ (\E r \in mine : lastOp.at - r.created_at < 2)
                      => u \notin lastOp.attempted
                /\ (/\ users[u].phone_verified /\ users[u].has_phone
                    /\ Get(users[u].notification_preferences, "whatsapp_enabled", TRUE)
                    /\ ~InQuietHours(users[u], lastOp.at % 24)
                    /\ u \in lastOp.reached
                    /\ \A r \in mine : lastOp.at - r.created_at > 2)
                      => u \in lastOp.attempted

\* C4 witness: a pass one hour after a logged meal_reminder sends nothing to
\* the user although nothing else holds the reminder back
C4_Witness ==
    /\ ReminderPass
    /\ \E u \in UserIds :
          /\ u \notin lastOp.attempted
          /\ users[u].phone_verified /\ users[u].has_phone
          /\ ~InQuietHours(users[u], lastOp.at % 24)
          /\ \E r \in lastOp.before :
                /\ r.user_id = u /\ r.notification_type = "meal_reminder"
                /\ r.created_at = lastOp.at - 1

\* a pass three hours after the user's last meal_reminder row sends again
C4_OldRowAllows ==
    /\ ReminderPass
    /\ \E u \in lastOp.attempted :
          /\ \E r \in lastOp.before :
                r.user_id = u /\ r.notification_type = "meal_reminder"
          /\ \A r \in lastOp.before :
                (r.user_id = u /\ r.notification_type = "meal_reminder")
                    => r.created_at <= lastOp.at - 3

\* the user's quiet hours are 22 to 7, stored or by default
QuietFrom22To7(u) ==
    /\ Get(users[u].notification_preferences, "quiet_hours_start", 22) = 22
    /\ Get(users[u].notification_preferences, "quiet_hours_end", 7) = 7

\* C5: with quiet hours 22 to 7 a pass at hour 23 or at hour 6 attempts no send
\* to the user, and a pass at hour 8 or at hour 21 sends to every verified,
\* enabled user without a recent meal_reminder row: quiet hours do not hold it
\* back.
C5_QuietHoursWrapAround ==
    ReminderPass =>
        \A u \in UserIds :
            QuietFrom22To7(u) =>
                /\ (lastOp.at % 24 \in {23, 6}) => u \notin lastOp.attempted
                /\ (/\ lastOp.at % 24 \in {8, 21}
                    /\ users[u].phone_verified /\ users[u].has_phone
                    /\ Get(users[u].notification_preferences, "whatsapp_enabled", TRUE)
                    /\ u \in lastOp.reached
                    /\ \A r \in lastOp.before :
                          (r.user_id = u /\ r.notification_type = "meal_reminder")
                              => lastOp.at - r.created_at >= 2)
                      => u \in lastOp.attempted

\* C5 witness: a pass at hour 23 that skips a verified user with an empty log
C5_Witness ==
    /\ ReminderPass
    /\ lastOp.at % 24 = 23
    /\ lastOp.before = {}
    /\ \E u \in UserIds :
          /\ QuietFrom22To7(u)
          /\ users[u].phone_verified /\ users[u].has_phone
          /\ u \notin lastOp.attempted

\* passes at hours 6, 8 and 21 with the same user: skipped at 6, sent at 8, 21
C5_Hour6 ==
    /\ ReminderPass /\ lastOp.at % 24 = 6 /\ lastOp.before = {}
    /\ \E u \in UserIds : QuietFrom22To7(u) /\ users[u].phone_verified
                             /\ u \notin lastOp.attempted

C5_Hour8 ==
    /\ ReminderPass /\ lastOp.at % 24 = 8
    /\ \E u \in lastOp.attempted : QuietFrom22To7(u)

C5_Hour21 ==
    /\ ReminderPass /\ lastOp.at % 24 = 21
    /\ \E u \in lastOp.attempted : QuietFrom22To7(u)

\* the quiet-hours range as configured: start <= hour < end when it does not
\* wrap, hour >= start or hour < end when it wraps midnight
InConfiguredRange(start, end, hour) ==
    IF start <= end THEN start <= hour /\ hour < end
    ELSE hour >= start \/ hour < end

\* C23: a user whom a pass reaches and who passes every other test (verified
\* phone, no recent meal, WhatsApp enabled, no recent meal_reminder row) is
\* held back by quiet hours exactly when the hour of the pass lies in the
\* configured range, wrapping or not.
C23_QuietHoursExactlyTheRange ==
    ReminderPass =>
        \A u \in lastOp.reached :
            (/\ NeedsReminder(users[u], lastOp.at)
             /\ WhatsappEnabled(users[u])
             /\ ~RecentReminder(lastOp.before, u, lastOp.at))
            => (u \notin lastOp.attempted
                <=> InConfiguredRange(
                        Get(users[u].notification_preferences, "quiet_hours_start", 22),
                        Get(users[u].notification_preferences, "quiet_hours_end", 7),
                        lastOp.at % 24))

\* the hours between two scheduled passes: schedule.every(2).hours
PassPeriod == 2

\* C25: a pass logs at most one meal_reminder row per user (a failed send is
\* not retried within the pass), and a user whose last meal_reminder row is a
\* failed one written by the pass 2 hours earlier, and who still qualifies
\* (verified phone, no recent meal, WhatsApp enabled, outside quiet hours), is
\* attempted again by this pass.
C25_FailedReminderRetriedNextPass ==
    ReminderPass =>
        \A u \in lastOp.reached :
            /\ Cardinality({r \in notifLog \ lastOp.before : r.user_id = u}) <= 1
            /\ (/\ NeedsReminder(users[u], lastOp.at)
                /\ WhatsappEnabled(users[u])
                /\ ~InQuietHours(users[u], lastOp.at % 24)
                /\ \E r \in lastOp.before :
                      /\ r.user_id = u /\ r.notification_type = "meal_reminder"
                      /\ r.status = "failed"
                      /\ r.created_at = lastOp.at - PassPeriod
                /\ \A r \in lastOp.before :
                      (r.user_id = u /\ r.notification_type = "meal_reminder")
                          => r.created_at <= lastOp.at - PassPeriod)
               => u \in lastOp.attempted

\* C25 witness: a pass attempts a user whose send failed 2 hours earlier
C25_Witness ==
    /\ ReminderPass
    /\ \E u \in lastOp.attempted :
          \E r \in lastOp.before :
              /\ r.user_id = u /\ r.notification_type = "meal_reminder"
              /\ r.status = "failed"
              /\ r.created_at = lastOp.at - PassPeriod

\* C6: a pass attempts no meal_reminder send to a user who logged a meal
\* within the 5 hours before the pass.
C6_NoReminderWithinFiveHoursOfMeal ==
    ReminderPass =>
        \A u \in lastOp.attempted :
            \A m \in meals : m.user_id = u => lastOp.at - m.upload_time > 5

\* C13: a failure while the meal-reminder pass processes one user does not end
\* the pass: every other user the pass selects, and who is not held back by
\* preferences, quiet hours or a recent reminder, is still sent to.
C13_FailureForOneUserKeepsBatch ==
    ReminderPass =>
        \A u \in Attempted(users, lastOp.before, lastOp.at) :
            u # lastOp.failed_at => u \in lastOp.attempted

====
